---- MODULE Spec2Model ----
(***************************************************************************)
(* Railgun explorer: the checkpointed ingestion loops (Polygon, Ethereum), *)
(* the event decoder, the start-up data migration of the web server and    *)
(* the DailyFlow aggregation, modelled over one SQLite store.              *)
(***************************************************************************)
EXTENDS Integers, Sequences, FiniteSets, TLC

(***************************************************************************)
(* Bounds of the model                                                     *)
(***************************************************************************)
\* highest head height the chain reaches
MaxHead == 15
\* highest events.id handed out before inserts are no longer explored
MaxRows == 5
\* longest data (in 32-byte words) of a log handed to the decoders
MaxWords == 4
\* blocks per batch: indexPolygon.ts:299 (from the environment, default 500)
\* and config.ts:11 (1000n), scaled to the model's chain
BATCH_SIZE == 2

(***************************************************************************)
(* Program constants.  Block heights are counted from the configured start *)
(* height.                                                                 *)
(***************************************************************************)
\* indexPolygon.ts:296 / config.ts:10
CONFIRMATION_BLOCKS == 12
\* indexPolygon.ts:291 / config.ts:7; heights are relative to it
START_BLOCK == 0
\* chartData.ts:544
MIN_TX_THRESHOLD == 3
\* SQLite date(ts, 'unixepoch'): seconds of one day
SECONDS_PER_DAY == 86400

Networks == {"polygon", "ethereum"}

\* SQL NULL for integer, text and real columns
NullInt == -1
NullText == "NULL"
NullReal == <<>>

(***************************************************************************)
(* Log payloads.  Data is a sequence of 32-byte words; a word is a small   *)
(* number (big-endian, upper 30 bytes zero) or FULL, a word none of whose  *)
(* bytes is zero (a hash).                                                 *)
(***************************************************************************)
FULL == -2

WordBytes(w) ==
  IF w = FULL THEN [i \in 1..32 |-> 255]
  ELSE [i \in 1..32 |-> IF i = 31 THEN (w \div 256) % 256
                         ELSE IF i = 32 THEN w % 256 ELSE 0]

RECURSIVE DataBytes(_)
DataBytes(data) ==
  IF data = <<>> THEN <<>>
  ELSE WordBytes(Head(data)) \o DataBytes(Tail(data))

\* length of the hex string log.data: "0x" and two characters per byte
HexLength(data) == 2 + 64 * Len(data)

\* an address value: its 20 bytes and the letter case of its hex string
Address(bytes, form) == [bytes |-> bytes, form |-> form]
NoAddress == [bytes |-> <<>>, form |-> "none"]
ZeroBytes20 == [i \in 1..20 |-> 0]

\* viem decodes an address word by taking its last 20 bytes, checksummed
AddressOfWord(w) == Address(SubSeq(WordBytes(w), 13, 32), "checksum")

\* viem getAddress: the checksummed form of the same 20 bytes
getAddress(a) == Address(a.bytes, "checksum")

(***************************************************************************)
(* Event ABIs and selectors (keccak-256 of the event signature)            *)
(***************************************************************************)
\* Shield(uint256,uint256,bytes32[],bytes[])
SEL_SHIELD == "0xad0fa55c"
\* Unshield(address,address,uint256,uint256)
SEL_UNSHIELD == "0x4f6c37c0"
\* Transact(uint256,uint256,bytes32[],bytes[])
SEL_TRANSACT == "0x3079ea19"
\* RelayerPayment(address,address,uint256)
SEL_RELAYER_PAYMENT == "0xd27326a5"
\* a topic no ABI and no legacy signature knows
SEL_UNKNOWN == "0xddf252ad"

POLYGON_EVENT_SIGNATURES ==
  [UNSHIELD |-> "0x49fed1d0", SHIELD |-> "0x4be10945"]

\* an ABI item: the words of static head it needs, the number of indexed
\* inputs (read from topics), and whether it has dynamic arrays
SMART_WALLET_ABI ==
  { [name |-> "Shield", sel |-> SEL_SHIELD, indexed |-> 0, static |-> 4,
     dynamic |-> TRUE],
    [name |-> "Unshield", sel |-> SEL_UNSHIELD, indexed |-> 2, static |-> 2,
     dynamic |-> FALSE],
    [name |-> "Transact", sel |-> SEL_TRANSACT, indexed |-> 0, static |-> 4,
     dynamic |-> TRUE] }

RELAY_ABI ==
  { [name |-> "RelayerPayment", sel |-> SEL_RELAYER_PAYMENT, indexed |-> 2,
     static |-> 1, dynamic |-> FALSE] }

POLYGON_RELAY_ABI ==
  { [name |-> "Unshield", sel |-> SEL_UNSHIELD, indexed |-> 0, static |-> 4,
     dynamic |-> FALSE] }

(***************************************************************************)
(* A chain log, as the RPC returns it                                      *)
(***************************************************************************)
Log(block, tx, idx, contract, topics, data) ==
  [blockNumber |-> block, transactionHash |-> tx, logIndex |-> idx,
   contract |-> contract, topics |-> topics, data |-> data]

\* a value read big-endian from 32 bytes; NullInt when it exceeds two bytes
BytesToNumber(bs) ==
  IF \A i \in 1..30 : bs[i] = 0 THEN bs[31] * 256 + bs[32] ELSE NullInt

\* a dynamic array at byte offset off lies inside the data: its length word
\* and its length many element words
ArrayInBounds(data, off) ==
  LET bytes == DataBytes(data)
      size == Len(bytes)
  IN  /\ off >= 0
      /\ off + 32 <= size
      /\ LET n == BytesToNumber(SubSeq(bytes, off + 1, off + 32))
         IN  n # NullInt /\ off + 32 + 32 * n <= size

ArrayLength(data, off) ==
  BytesToNumber(SubSeq(DataBytes(data), off + 1, off + 32))

Threw == [threw |-> TRUE, eventName |-> "", args |-> <<>>]

\* viem decodeEventLog (strict): the ABI item is found by the first topic,
\* indexed inputs are read from the further topics, the others from data
decodeEventLog(abi, log) ==
  IF log.topics = <<>> THEN Threw
  ELSE
    LET items == {x \in abi : x.sel = log.topics[1]} IN
    IF items = {} THEN Threw
    ELSE
      LET item == CHOOSE x \in items : TRUE
          argTopics == Tail(log.topics)
      IN
      IF Len(argTopics) < item.indexed THEN Threw
      ELSE IF log.data = <<>> THEN Threw
      ELSE IF Len(log.data) < item.static THEN Threw
      ELSE IF item.dynamic
              /\ (\/ log.data[3] = FULL
                  \/ log.data[4] = FULL
                  \/ ~ArrayInBounds(log.data, log.data[3])
                  \/ ~ArrayInBounds(log.data, log.data[4]))
           THEN Threw
      ELSE [threw |-> FALSE, eventName |-> item.name,
            args |-> SubSeq(argTopics, 1, item.indexed) \o log.data]

(***************************************************************************)
(* Decoded events                                                          *)
(***************************************************************************)
DecodedEvent(name, type, token, amount, to, meta) ==
  [eventName |-> name, eventType |-> type, tokenAddress |-> token,
   rawAmountWei |-> amount, relayerAddress |-> NullText,
   toAddress |-> to, metadata |-> meta]

Returned(evs) == [threw |-> FALSE, events |-> evs]
Raised == [threw |-> TRUE, events |-> <<>>]

\* the body of the try block of both decoders after decodeEventLog; Raised
\* stands for an exception raised inside it.  The ABIs declare commitments
\* as bytes32[] and token as address: a commitment has no token field
\* (reading commitment.token.tokenType raises a TypeError), and
\* token.tokenType is undefined, never 0.
StructuredEvents(abi, decoded) ==
  IF decoded.eventName = "Shield"
  THEN IF ArrayLength(decoded.args, decoded.args[3]) > 0
       THEN Raised ELSE Returned(<<>>)
  ELSE IF decoded.eventName = "Unshield"
  THEN IF abi = SMART_WALLET_ABI
       THEN Returned(<<>>)
       ELSE Returned(<< DecodedEvent("Unshield", "withdrawal",
                          AddressOfWord(decoded.args[2]), decoded.args[3],
                          AddressOfWord(decoded.args[1]),
                          [fee |-> decoded.args[4], note |-> ""]) >>)
  ELSE Returned(<<>>)

\* eventDecoder.ts decodeSmartWalletEvent: everything is inside one try
\* whose catch returns []
decodeSmartWalletEvent(log) ==
  LET decoded == decodeEventLog(SMART_WALLET_ABI, log) IN
  IF decoded.threw THEN Returned(<<>>)
  ELSE LET body == StructuredEvents(SMART_WALLET_ABI, decoded) IN
       IF body.threw THEN Returned(<<>>) ELSE body

\* the manual Unshield decode of the catch block
LegacyUnshield(log) ==
  IF Len(log.data) < 4 THEN Returned(<<>>)
  ELSE Returned(<< DecodedEvent("Unshield", "withdrawal",
                                AddressOfWord(log.data[2]), log.data[3],
                                AddressOfWord(log.data[1]),
                                [fee |-> log.data[4], note |-> ""]) >>)

\* the 64 hex characters at position pos of the hex string, as 32 bytes
ChunkAt(bytes, pos) ==
  SubSeq(bytes, (pos - 2) \div 2 + 1, (pos - 2) \div 2 + 32)

\* a chunk is a padded address: 24 zero characters, then a non-zero address
PaddedAddress(chunk) ==
  /\ \A i \in 1..12 : chunk[i] = 0
  /\ SubSeq(chunk, 13, 32) # ZeroBytes20

CandidatePositions == <<130, 106, 90, 154, 170>>

\* the byte-offset scan of the Polygon Shield fallback: the first candidate
\* position holding a padded address, else the first even position of the
\* linear scan; 0 when there is none
ShieldTokenPosition(data) ==
  LET bytes == DataBytes(data)
      len == HexLength(data)
      fixed == {k \in 1..Len(CandidatePositions) :
                  /\ CandidatePositions[k] + 64 <= len
                  /\ PaddedAddress(ChunkAt(bytes, CandidatePositions[k]))}
      scan == {i \in 2..(len - 65) :
                  i % 2 = 0 /\ PaddedAddress(ChunkAt(bytes, i))}
  IN  IF fixed # {}
      THEN CandidatePositions[CHOOSE k \in fixed : \A j \in fixed : k <= j]
      ELSE IF scan # {}
      THEN CHOOSE i \in scan : \A j \in scan : i <= j
      ELSE 0

\* a Shield fallback that reads the word after the address as the amount
LegacyShieldWithAmount(log) ==
  LET pos == ShieldTokenPosition(log.data) IN
  IF pos = 0 THEN Returned(<<>>)
  ELSE Returned(<< DecodedEvent("Shield", "deposit",
         Address(SubSeq(ChunkAt(DataBytes(log.data), pos), 13, 32), "lower"),
         log.data[Len(log.data)], NoAddress,
         [fee |-> NullInt,
          note |-> "Polygon Shield - amount set to 0, structure too complex"])
       >>)

\* the Shield branch of the catch block: one deposit with amount '0' when
\* a token address was found
LegacyShield(log) ==
  LET pos == ShieldTokenPosition(log.data) IN
  IF pos = 0 THEN Returned(<<>>)
  ELSE Returned(<< DecodedEvent("Shield", "deposit",
         Address(SubSeq(ChunkAt(DataBytes(log.data), pos), 13, 32), "lower"),
         0, NoAddress,
         [fee |-> NullInt,
          note |-> "Polygon Shield - amount set to 0, structure too complex"])
       >>)

\* a catch block that raises again on a signature it does not know
RelayFallbackRaising(log) ==
  LET eventSig == IF Len(log.topics) > 0 THEN log.topics[1] ELSE NullText IN
  IF eventSig = POLYGON_EVENT_SIGNATURES.UNSHIELD /\ HexLength(log.data) > 130
  THEN LegacyUnshield(log)
  ELSE IF eventSig = POLYGON_EVENT_SIGNATURES.SHIELD /\ HexLength(log.data) > 200
  THEN LegacyShield(log)
  ELSE Raised

\* a catch block that takes the manual Unshield path whatever the first topic
RelayFallbackAnyTopic(log) ==
  IF HexLength(log.data) > 130 THEN LegacyUnshield(log) ELSE Returned(<<>>)

\* the catch block of decodeRelayEvent
RelayFallback(log) ==
  LET eventSig == IF log.topics = <<>> THEN NullText ELSE log.topics[1] IN
  IF eventSig = POLYGON_EVENT_SIGNATURES.UNSHIELD /\ HexLength(log.data) > 130
  THEN LegacyUnshield(log)
  ELSE IF eventSig = POLYGON_EVENT_SIGNATURES.SHIELD
          /\ HexLength(log.data) > 200
  THEN LegacyShield(log)
  ELSE Returned(<<>>)

\* eventDecoder.ts decodeRelayEvent(log, abi)
decodeRelayEvent(log, abi) ==
  LET decoded == decodeEventLog(abi, log) IN
  IF decoded.threw THEN RelayFallback(log)
  ELSE LET body == StructuredEvents(abi, decoded) IN
       IF body.threw THEN RelayFallback(log) ELSE body

(***************************************************************************)
(* The chains the RPC providers serve.  Token contracts: word 10 is an     *)
(* ERC-20 with 1 decimal, word 11 an ERC-20 with 2 decimals; any other     *)
(* address has no symbol()/decimals().                                     *)
(***************************************************************************)
TokenWords == <<10, 11>>
TOKEN_A == TokenWords[1]
TOKEN_B == TokenWords[2]
USER == Len(<<1, 2, 3, 4, 5, 6, 7>>)

TokenDecimals(bytes) ==
  IF bytes = AddressOfWord(TOKEN_A).bytes THEN 1
  ELSE IF bytes = AddressOfWord(TOKEN_B).bytes THEN 2
  ELSE NullInt

TokenSymbol(bytes) ==
  IF bytes = AddressOfWord(TOKEN_A).bytes THEN "AAA"
  ELSE IF bytes = AddressOfWord(TOKEN_B).bytes THEN "BBB"
  ELSE NullText

\* block.timestamp of a block (two blocks a day)
BlockTimestamp(b) == 1000 + b * 40000

\* tx.from of a transaction
TxSender(tx) == "0xrelayer"

UnshieldData(token, amount, fee) == <<USER, token, amount, fee>>
\* treeHash, offset, then the padded token address (hex position 130)
ShieldData(token) == <<FULL, 64, token, 1, FULL>>

PolygonBlock(b) ==
  IF b = 1 THEN
    << Log(1, "0xp1", 0, "Relay", <<SEL_UNSHIELD>>, UnshieldData(TOKEN_A, 200, 3)),
       Log(1, "0xp1", 1, "Relay", <<POLYGON_EVENT_SIGNATURES.UNSHIELD>>,
           UnshieldData(TOKEN_A, 300, 5)),
       Log(1, "0xp1", 2, "Relay", <<SEL_UNSHIELD>>, UnshieldData(TOKEN_A, 100, 1)) >>
  ELSE IF b = 2 THEN
    << Log(2, "0xp2", 0, "Relay", <<POLYGON_EVENT_SIGNATURES.SHIELD>>,
           ShieldData(TOKEN_A)),
       Log(2, "0xp2", 1, "Relay", <<SEL_UNKNOWN, 5>>, <<1, 2>>),
       Log(2, "0xp2", 2, "SmartWallet", <<SEL_SHIELD>>, <<0, 0, 128, 192, 1, FULL, 0>>) >>
  ELSE IF b = 3 THEN
    << Log(3, "0xp3", 0, "Relay", <<SEL_UNSHIELD>>, <<USER, TOKEN_A>>),
       Log(3, "0xp3", 1, "Relay", <<SEL_UNSHIELD>>, UnshieldData(TOKEN_B, 500, 0)) >>
  ELSE << >>

EthereumBlock(b) ==
  IF b = 1 THEN
    << Log(1, "0xe1", 0, "Relay", <<POLYGON_EVENT_SIGNATURES.SHIELD>>,
           ShieldData(TOKEN_A)),
       Log(1, "0xe1", 1, "Relay", <<POLYGON_EVENT_SIGNATURES.SHIELD>>,
           ShieldData(TOKEN_A)) >>
  ELSE IF b = 2 THEN
    << Log(2, "0xe2", 0, "Relay", <<SEL_RELAYER_PAYMENT, USER, TOKEN_A>>, <<40>>),
       Log(2, "0xe2", 1, "SmartWallet", <<SEL_UNSHIELD, USER, TOKEN_A>>, <<50, 1>>) >>
  ELSE IF b = 3 THEN
    << Log(3, "0xe3", 0, "Relay", <<POLYGON_EVENT_SIGNATURES.UNSHIELD>>,
           UnshieldData(TOKEN_B, 300, 5)) >>
  ELSE << >>

ChainBlock(n, b) == IF n = "polygon" THEN PolygonBlock(b) ELSE EthereumBlock(b)

\* client.getLogs({address, fromBlock, toBlock}): the logs of one contract
\* in the closed block range, in chain order
RECURSIVE getLogs(_, _, _, _)
getLogs(n, contract, fromBlock, toBlock) ==
  IF fromBlock > toBlock THEN << >>
  ELSE SelectSeq(ChainBlock(n, fromBlock), LAMBDA l : l.contract = contract)
       \o getLogs(n, contract, fromBlock + 1, toBlock)

\* the decoder call the loop of network n makes for a log
Decode(n, log) ==
  IF log.contract = "SmartWallet" THEN decodeSmartWalletEvent(log)
  ELSE IF n = "polygon" THEN decodeRelayEvent(log, POLYGON_RELAY_ABI)
  ELSE decodeRelayEvent(log, RELAY_ABI)


(***************************************************************************)
(* State.  One network's pipeline per behaviour (net), the shared SQLite   *)
(* database, the ingestion process of that network, the web server's       *)
(* start-up and the DailyFlow recompute.                                   *)
(***************************************************************************)
VARIABLES
  net,            \* the network whose ingestion loop runs
  head,           \* client.getBlockNumber() of the chain
  metadata,       \* table metadata: key -> value text (<<>> when no row)
  events,         \* table events: set of rows
  nextEventId,    \* AUTOINCREMENT of events.id
  tokens,         \* table tokens: set of rows
  nextTokenId,    \* AUTOINCREMENT of tokens.id
  dailyFlows,     \* table daily_flows: set of rows
  pc,             \* position of the ingestion process
  safeBlock,      \* main: safeBlock
  currentBlock,   \* main: currentBlock
  toBlock,        \* main: toBlock of the batch in progress
  logs,           \* indexBatch: smartWalletLogs followed by relayLogs
  logPos,         \* indexBatch: index of the next log
  eventsToInsert, \* indexBatch: rows collected for the transaction
  timestamps,     \* indexBatch: blocks whose timestamp is cached
  txSenders,      \* indexBatch: tx hash -> sender cache
  tokenCache,     \* resolver: address -> id cache of the process
  exitCode,       \* exit status of the last ended ingestion process
  exitReason,     \* why the last ingestion process ended
  batchBaseId,    \* nextEventId when the batch in progress began
  runStart,       \* the checkpoint main read when the run began
  batches,        \* history: the block ranges the run has committed, in order
  lastFailed,     \* history: the block range of the batch the last run failed on
  srv,            \* position of the web server's start-up
  aggPc,          \* position of computeDailyFlows
  dlog,           \* decoder harness: the log under test
  dout,           \* decoder harness: what the decoder returned
  relayerStatsDaily, \* table relayer_stats_daily: set of rows
  relPc,          \* position of computeRelayerStats
  nin,            \* normalization: the raw amount and token id of an event
  nout,           \* normalization: the amountNormalized computed for it
  rcalls,         \* resolver: the resolveTokenId calls in progress
  rcache,         \* resolver: the tokenCache each call reads and writes
  analyticsRunning, \* start-all: the in-flight flag of runAnalytics
  analyticsRuns,  \* start-all: the runAnalytics call each trigger has in flight
  indexerStatus,  \* start-all: indexerStatus of the two networks
  supPc,          \* start-all: position of each network's indexer and callback
  lastTrigger,    \* start-all: the last runAnalytics call and whether it ran
  lastEnd,        \* start-all: how the last aggregation run ended
  liveProcs,      \* start-all: the ingestion processes of each network that are alive
  timers,         \* start-all: the restart timers of each network that are pending
  rebuilt,        \* start-all: the derived tables the run of each trigger has rebuilt
  retry,          \* withRetry: the call of one call site in progress
  sub,            \* indexBatch: two decoded events and the index each is stored at
  relayerFeeRevenueDaily, \* table relayer_fee_revenue_daily: set of rows
  feePc           \* position of computeRelayerFeeRevenue

vars ==
  << net, head, metadata, events, nextEventId, tokens, nextTokenId, dailyFlows,
     pc, safeBlock, currentBlock, toBlock, logs, logPos, eventsToInsert,
     timestamps, txSenders, tokenCache, exitCode, exitReason, batchBaseId,
     runStart, batches, lastFailed, srv, aggPc, dlog, dout, relayerStatsDaily, relPc,
     nin, nout, rcalls, rcache, analyticsRunning, analyticsRuns, indexerStatus,
     supPc, lastTrigger, lastEnd, liveProcs, timers, rebuilt, retry, sub,
     relayerFeeRevenueDaily, feePc >>

dbVars == << metadata, events, nextEventId, tokens, nextTokenId, dailyFlows >>
batchVars == << logs, logPos, eventsToInsert, timestamps, txSenders, batchBaseId >>
runVars == << safeBlock, currentBlock, toBlock, runStart, batches >>
\* the state of the components that are run in specifications of their own
relayerVars == << relayerStatsDaily, relPc >>
normVars == << nin, nout >>
resolverVars == << rcalls, rcache >>
supervisorVars ==
  << analyticsRunning, analyticsRuns, indexerStatus, supPc, lastTrigger, lastEnd,
     liveProcs, timers, rebuilt >>
feeVars == << relayerFeeRevenueDaily, feePc >>
fnVars == << retry, sub, feeVars, lastFailed >>
auxVars == << relayerVars, normVars, resolverVars, supervisorVars, fnVars >>
harnessVars == << dlog, dout, auxVars >>

\* block.toString(): the decimal digits of a non-negative integer
RECURSIVE toString(_)
toString(n) == IF n < 10 THEN <<n>> ELSE toString(n \div 10) \o <<n % 10>>

\* BigInt(text) of a decimal text
RECURSIVE BigInt(_)
BigInt(text) ==
  IF Len(text) = 1 THEN text[1]
  ELSE 10 * BigInt(SubSeq(text, 1, Len(text) - 1)) + text[Len(text)]

POLYGON_RESET_KEY == "polygon_events_reset_v3"
CheckpointKey(n) ==
  IF n = "polygon" THEN "last_indexed_block_polygon" ELSE "last_indexed_block_eth"
MetadataKeys ==
  {"last_indexed_block_polygon", "last_indexed_block_eth", POLYGON_RESET_KEY}
NoRow == << >>

\* getLastIndexedBlock(): row?.value ? BigInt(row.value) : START_BLOCK
getLastIndexedBlock(n, md) ==
  IF md[CheckpointKey(n)] # NoRow THEN BigInt(md[CheckpointKey(n)]) ELSE START_BLOCK

\* an upsert that stores the block before the one it is given
setLastIndexedBlockOffByOne(n, md, block) ==
  [md EXCEPT ![CheckpointKey(n)] = toString(block - 1)]

\* setLastIndexedBlock(block): upsert of the network's checkpoint row
setLastIndexedBlock(n, md, block) ==
  [md EXCEPT ![CheckpointKey(n)] = toString(block)]

\* the chain value the loop of network n puts in the rows it inserts
InsertedChain(n) == IF n = "polygon" THEN "polygon" ELSE NullText

\* the token row a lookup of network n finds for an address, or none
TokenMatches(n, toks, checksummed) ==
  { t \in toks : /\ t.address = checksummed
                 /\ (n = "polygon" => t.chain = "polygon") }

FirstRow(rows) == CHOOSE r \in rows : \A q \in rows : r.id <= q.id

\* resolveTokenId(tokenAddress): cache, then database, then metadata
\* fetch and insert; fetchOk is the outcome of the symbol()/decimals() reads
resolveTokenId(n, toks, cache, nextId, tokenAddress, fetchOk) ==
  LET checksummed == getAddress(tokenAddress)
      cached == { c \in cache : c.address = checksummed }
      existing == TokenMatches(n, toks, checksummed)
      metaOk == fetchOk /\ TokenDecimals(checksummed.bytes) # NullInt
      row == [ id |-> nextId, chain |-> InsertedChain(n), address |-> checksummed,
               symbol |-> IF metaOk THEN TokenSymbol(checksummed.bytes) ELSE NullText,
               decimals |-> IF metaOk THEN TokenDecimals(checksummed.bytes) ELSE NullInt ]
  IN  IF cached # {}
      THEN [ tokens |-> toks, cache |-> cache, nextId |-> nextId,
             id |-> (CHOOSE c \in cached : TRUE).id ]
      ELSE IF existing # {}
      THEN [ tokens |-> toks, nextId |-> nextId, id |-> FirstRow(existing).id,
             cache |-> cache \cup {[address |-> checksummed, id |-> FirstRow(existing).id]} ]
      ELSE [ tokens |-> toks \cup {row}, nextId |-> nextId + 1, id |-> nextId,
             cache |-> cache \cup {[address |-> checksummed, id |-> nextId]} ]

RECURSIVE Pow10(_)
Pow10(d) == IF d = 0 THEN 1 ELSE 10 * Pow10(d - 1)

\* amountNormalized: raw / 10^decimals as a fraction, or NULL
Normalize(rawAmountWei, tokenId, toks) ==
  IF rawAmountWei = NullInt \/ tokenId = NullInt THEN NullReal
  ELSE LET found == { t \in toks : t.id = tokenId }
       IN  IF found = {} THEN NullReal
           ELSE LET decimals == (CHOOSE t \in found : TRUE).decimals
                IN  IF decimals = NullInt \/ decimals = 0 THEN NullReal
                    ELSE << rawAmountWei, Pow10(decimals) >>

\* the row indexBatch builds for the i-th (0-based) event decoded from a log
NewEvent(n, log, i, decoded, tokenId, amountNormalized, relayerAddress) ==
  [ chain |-> InsertedChain(n),
    txHash |-> log.transactionHash,
    logIndex |-> log.logIndex * 100 + i,
    blockNumber |-> log.blockNumber,
    blockTimestamp |-> BlockTimestamp(log.blockNumber),
    contractName |-> log.contract,
    eventName |-> decoded.eventName,
    eventType |-> decoded.eventType,
    tokenId |-> tokenId,
    rawAmountWei |-> decoded.rawAmountWei,
    amountNormalized |-> amountNormalized,
    relayerAddress |-> relayerAddress,
    toAddress |-> decoded.toAddress,
    metadataJson |-> decoded.metadata ]

\* UNIQUE(chain, tx_hash, log_index): NULL chains never compare equal
Conflicts(rows, new) ==
  \E r \in rows : /\ new.chain # NullText
                  /\ r.chain = new.chain
                  /\ r.txHash = new.txHash
                  /\ r.logIndex = new.logIndex

WithId(new, id) == [ f \in DOMAIN new \cup {"id"} |-> IF f = "id" THEN id ELSE new[f] ]

\* a persist that writes no row
InsertNothing(rows, nextId, news) == [ events |-> rows, nextId |-> nextId ]

\* insert(...).values(rows).onConflictDoNothing(), row by row
RECURSIVE InsertAll(_, _, _)
InsertAll(rows, nextId, news) ==
  IF news = << >> THEN [ events |-> rows, nextId |-> nextId ]
  ELSE IF Conflicts(rows, Head(news)) THEN InsertAll(rows, nextId, Tail(news))
  ELSE InsertAll(rows \cup {WithId(Head(news), nextId)}, nextId + 1, Tail(news))

EmptyMetadata == [ k \in MetadataKeys |-> NoRow ]

NoAmount == [ rawAmountWei |-> NullInt, tokenId |-> NullInt ]
NotNormalized == [ done |-> FALSE, amountNormalized |-> NullReal ]

InitRelayerVars ==
  /\ relayerStatsDaily = {}
  /\ relPc = "idle"

InitNormVars ==
  /\ nin = NoAmount
  /\ nout = NotNormalized

InitResolverVars ==
  /\ rcalls = << >>
  /\ rcache = << >>

Triggers == {"interval"} \cup Networks

\* start-all.ts before main() has run
InitSupervisorVars ==
  /\ analyticsRunning = FALSE
  /\ analyticsRuns = [ t \in Triggers |-> "none" ]
  /\ indexerStatus = [ n \in Networks |-> [ running |-> FALSE, lastExitCode |-> NullInt ] ]
  /\ supPc = [ n \in Networks |-> "delay" ]
  /\ lastTrigger = [ by |-> "none", ran |-> FALSE ]
  /\ lastEnd = "none"
  /\ liveProcs = [ n \in Networks |-> 0 ]
  /\ timers = [ n \in Networks |-> 1 ]
  /\ rebuilt = [ t \in Triggers |-> {} ]

\* no call in progress
NoCall ==
  [ n |-> "none", site |-> "none", attempt |-> 0, calls |-> << >>,
    waits |-> << >>, pc |-> "idle", lastError |-> "none" ]

\* no pair of decoded events under test
NoPair == << >>

InitFeeVars ==
  /\ relayerFeeRevenueDaily = {}
  /\ feePc = "idle"

InitFnVars ==
  /\ retry = NoCall
  /\ sub = NoPair
  /\ lastFailed = << >>
  /\ InitFeeVars

InitAux ==
  /\ InitRelayerVars
  /\ InitNormVars
  /\ InitResolverVars
  /\ InitSupervisorVars
  /\ InitFnVars

NoLog == Log(0, "", 0, "", << >>, << >>)
NotDecoded == [ by |-> "none", threw |-> FALSE, events |-> << >> ]

Init ==
  /\ net \in Networks
  /\ head = CONFIRMATION_BLOCKS
  /\ metadata = EmptyMetadata
  /\ events = {}
  /\ nextEventId = 1
  /\ tokens = {}
  /\ nextTokenId = 1
  /\ dailyFlows = {}
  /\ pc = "stopped"
  /\ safeBlock = 0
  /\ currentBlock = 0
  /\ toBlock = 0
  /\ logs = << >>
  /\ logPos = 1
  /\ eventsToInsert = << >>
  /\ timestamps = {}
  /\ txSenders = {}
  /\ tokenCache = {}
  /\ exitCode = NullInt
  /\ exitReason = "none"
  /\ batchBaseId = 1
  /\ runStart = 0
  /\ batches = << >>
  /\ srv = "down"
  /\ aggPc = "idle"
  /\ dlog = NoLog
  /\ dout = NotDecoded
  /\ InitAux

(***************************************************************************)
(* The ingestion process: main() and indexBatch() of indexPolygon.ts and   *)
(* of the Ethereum loop.                                                   *)
(***************************************************************************)
\* an upper bound that is not held at the safe head
NextToBlockUnclamped == currentBlock + BATCH_SIZE

\* toBlock = currentBlock + BATCH_SIZE > safeBlock ? safeBlock : ...
NextToBlock ==
  IF currentBlock + BATCH_SIZE > safeBlock THEN safeBlock ELSE currentBlock + BATCH_SIZE

\* a first block that is the last block of the batch before
BatchFromOverlapping == currentBlock

\* indexBatch(currentBlock + 1n, toBlock): the first block of the batch
BatchFrom == currentBlock + 1

\* the process ends and its memory is gone
Stopped(code, reason) ==
  /\ batches' = << >>
  /\ pc' = "exited"
  /\ exitCode' = code
  /\ exitReason' = reason
  /\ safeBlock' = 0
  /\ currentBlock' = 0
  /\ toBlock' = 0
  /\ logs' = << >>
  /\ logPos' = 1
  /\ eventsToInsert' = << >>
  /\ timestamps' = {}
  /\ txSenders' = {}
  /\ tokenCache' = {}
  /\ batchBaseId' = 1
  /\ runStart' = 0

\* a catch that logs the error and goes on with the next batch
ContinueAfterError(reason) ==
  /\ batches' = batches
  /\ pc' = "loop"
  /\ exitCode' = exitCode
  /\ exitReason' = reason
  /\ safeBlock' = safeBlock
  /\ currentBlock' = toBlock
  /\ toBlock' = toBlock
  /\ logs' = << >>
  /\ logPos' = 1
  /\ eventsToInsert' = << >>
  /\ timestamps' = {}
  /\ txSenders' = {}
  /\ tokenCache' = {}
  /\ batchBaseId' = 1
  /\ runStart' = runStart

\* main().catch(console.error): the rejection is printed and the process
\* ends normally
Failed(reason) == Stopped(0, reason)

\* the supervisor (or an operator) spawns the ingestion process
StartIndexer ==
  /\ pc = "stopped"
  /\ pc' = "main"
  /\ UNCHANGED << net, head, dbVars, runVars, batchVars,
                  tokenCache, exitCode, exitReason, srv, aggPc, harnessVars >>

\* start-all.ts: proc.exited resolves; the handler logs the exit code and
\* schedules the recompute and the restart, whatever the code
IndexerExited ==
  /\ pc = "exited"
  /\ pc' = "stopped"
  /\ exitCode' = NullInt
  /\ exitReason' = "none"
  /\ UNCHANGED << net, head, dbVars, runVars, batchVars,
                  tokenCache, srv, aggPc, harnessVars >>

\* main: getBlockNumber with retries, safeBlock, getLastIndexedBlock
MainInit ==
  /\ pc = "main"
  /\ \/ /\ pc' = "loop"
        /\ safeBlock' = head - CONFIRMATION_BLOCKS
        /\ currentBlock' = getLastIndexedBlock(net, metadata)
        /\ runStart' = getLastIndexedBlock(net, metadata)
        /\ batches' = << >>
        /\ UNCHANGED << toBlock, batchVars, tokenCache, exitCode, exitReason >>
     \/ Failed("getBlockNumber")
  /\ UNCHANGED << net, head, dbVars, srv, aggPc, harnessVars >>

\* a loop test that is false although blocks are left
LoopTestOffByOne == currentBlock + 1 < safeBlock

\* while (currentBlock < safeBlock)
LoopTest ==
  currentBlock < safeBlock

\* main: the while test is false
CaughtUp ==
  /\ pc = "loop"
  /\ ~LoopTest
  /\ Stopped(0, "caughtUp")
  /\ UNCHANGED << net, head, dbVars, srv, aggPc, harnessVars >>

\* main: the while test is true; indexBatch fetches the logs of both
\* contracts with retries
BeginBatch ==
  /\ pc = "loop"
  /\ LoopTest
  /\ \/ /\ pc' = "batch"
        /\ toBlock' = NextToBlock
        /\ logs' = getLogs(net, "SmartWallet", BatchFrom, NextToBlock)
                   \o getLogs(net, "Relay", BatchFrom, NextToBlock)
        /\ logPos' = 1
        /\ eventsToInsert' = << >>
        /\ timestamps' = {}
        /\ txSenders' = {}
        /\ batchBaseId' = nextEventId
        /\ UNCHANGED << safeBlock, currentBlock, runStart, batches,
                        tokenCache, exitCode,
                        exitReason >>
     \/ Failed("getLogs")
  /\ UNCHANGED << net, head, dbVars, srv, aggPc, harnessVars >>

\* the inner loop over the events decoded from one log: token resolution,
\* normalization, sender lookup (errors swallowed), the row
RECURSIVE ProcessEvents(_, _, _, _, _, _, _)
ProcessEvents(n, st, log, decodedEvents, i, fetchOk, senderOk) ==
  IF i >= Len(decodedEvents) THEN st
  ELSE
    LET decoded == decodedEvents[i + 1]
        r == IF decoded.tokenAddress # NoAddress
             THEN resolveTokenId(n, st.tokens, st.cache, st.nextId,
                                 decoded.tokenAddress, fetchOk)
             ELSE [ tokens |-> st.tokens, cache |-> st.cache,
                    nextId |-> st.nextId, id |-> NullInt ]
        amountNormalized == Normalize(decoded.rawAmountWei, r.id, r.tokens)
        needSender == /\ log.contract = "Relay"
                      /\ decoded.eventType = "withdrawal"
                      /\ decoded.relayerAddress = NullText
        known == { x \in st.senders : x.txHash = log.transactionHash }
        senders ==
          IF needSender /\ known = {}
          THEN st.senders \cup
               {[ txHash |-> log.transactionHash,
                  from |-> IF senderOk THEN TxSender(log.transactionHash) ELSE NullText ]}
          ELSE st.senders
        relayerAddress ==
          IF needSender
          THEN (CHOOSE x \in senders : x.txHash = log.transactionHash).from
          ELSE decoded.relayerAddress
    IN  ProcessEvents(n,
          [ tokens |-> r.tokens, cache |-> r.cache, nextId |-> r.nextId,
            senders |-> senders,
            rows |-> Append(st.rows, NewEvent(n, log, i, decoded, r.id,
                                              amountNormalized, relayerAddress)) ],
          log, decodedEvents, i + 1, fetchOk, senderOk)

LoopState ==
  [ tokens |-> tokens, cache |-> tokenCache, nextId |-> nextTokenId,
    senders |-> txSenders, rows |-> << >> ]

\* indexBatch: one iteration of the loops over the fetched logs
ProcessLog ==
  /\ pc = "batch"
  /\ logPos <= Len(logs)
  /\ LET log == logs[logPos]
         decodedEvents == Decode(net, log).events
     IN
     IF Decode(net, log).threw
     THEN /\ Failed("decode")
          /\ UNCHANGED dbVars
     ELSE IF Len(decodedEvents) = 0
     THEN /\ logPos' = logPos + 1
          /\ UNCHANGED << dbVars, pc, runVars, logs,
                          eventsToInsert, timestamps, txSenders, tokenCache,
                          exitCode, exitReason, batchBaseId >>
     ELSE
       \/ \* getBlock fails on every attempt
          /\ log.blockNumber \notin timestamps
          /\ Failed("getBlock")
          /\ UNCHANGED dbVars
       \/ \* a statement of resolveTokenId or the tokens read raises,
          \* before or after the token row went in
          \E k \in 1..Len(decodedEvents), fetchOk \in BOOLEAN, inserted \in BOOLEAN :
            LET before == ProcessEvents(net, LoopState, log, decodedEvents, 0, fetchOk, TRUE)
                st == ProcessEvents(net, LoopState, log,
                                    SubSeq(decodedEvents, 1, IF inserted THEN k ELSE k - 1),
                                    0, fetchOk, TRUE)
                ins == InsertAll(events, nextEventId, SubSeq(before.rows, 1, k - 1))
            IN  /\ decodedEvents[k].tokenAddress # NoAddress
                /\ ins.nextId <= MaxRows + 1
                /\ tokens' = st.tokens
                /\ nextTokenId' = st.nextId
                /\ IF net = "polygon"
                   THEN UNCHANGED << events, nextEventId >>
                   ELSE events' = ins.events /\ nextEventId' = ins.nextId
                /\ Failed("resolveToken")
                /\ UNCHANGED << metadata, dailyFlows >>
       \/ \* Ethereum: the insert of the k-th row raises
          \E k \in 1..Len(decodedEvents), fetchOk \in BOOLEAN :
            LET st == ProcessEvents(net, LoopState, log, SubSeq(decodedEvents, 1, k),
                                    0, fetchOk, TRUE)
                ins == InsertAll(events, nextEventId, SubSeq(st.rows, 1, k - 1))
            IN  /\ net = "ethereum"
                /\ ins.nextId <= MaxRows + 1
                /\ tokens' = st.tokens
                /\ nextTokenId' = st.nextId
                /\ events' = ins.events
                /\ nextEventId' = ins.nextId
                /\ Failed("insert")
                /\ UNCHANGED << metadata, dailyFlows >>
       \/ \* the log is processed
          \E fetchOk \in BOOLEAN, senderOk \in BOOLEAN :
            LET st == ProcessEvents(net, LoopState, log, decodedEvents, 0, fetchOk, senderOk)
                ins == InsertAll(events, nextEventId, st.rows)
            IN  /\ tokens' = st.tokens
                /\ nextTokenId' = st.nextId
                /\ tokenCache' = st.cache
                /\ txSenders' = st.senders
                /\ timestamps' = timestamps \cup {log.blockNumber}
                /\ IF net = "polygon"
                   THEN /\ eventsToInsert' = eventsToInsert \o st.rows
                        /\ UNCHANGED << events, nextEventId >>
                   ELSE /\ ins.nextId <= MaxRows + 1
                        /\ events' = ins.events
                        /\ nextEventId' = ins.nextId
                        /\ UNCHANGED eventsToInsert
                /\ logPos' = logPos + 1
                /\ UNCHANGED << metadata, dailyFlows, pc, runVars,
                                logs, exitCode, exitReason, batchBaseId >>
  /\ UNCHANGED << net, head, srv, aggPc, harnessVars >>

\* indexBatch: after the loops; Polygon inserts the collected rows in one
\* transaction with retries, the Ethereum loop has nothing left to write
EndBatch ==
  /\ pc = "batch"
  /\ logPos > Len(logs)
  /\ IF net = "polygon" /\ Len(eventsToInsert) > 0
     THEN \/ LET ins == InsertAll(events, nextEventId, eventsToInsert)
             IN  /\ ins.nextId <= MaxRows + 1
                 /\ events' = ins.events
                 /\ nextEventId' = ins.nextId
                 /\ pc' = "checkpoint"
                 /\ UNCHANGED << runVars, batchVars,
                                 tokenCache, exitCode, exitReason >>
          \/ /\ Failed("persist")
             /\ UNCHANGED << events, nextEventId >>
     ELSE /\ pc' = "checkpoint"
          /\ UNCHANGED << events, nextEventId, runVars,
                          batchVars, tokenCache, exitCode, exitReason >>
  /\ UNCHANGED << net, head, metadata, tokens, nextTokenId, dailyFlows, srv, aggPc,
                  harnessVars >>

\* a clear that leaves the entries in place
clearTokenCacheKeeps(cache) == cache

\* tokenCache.clear()
clearTokenCache(cache) == {}

\* main: setLastIndexedBlock(toBlock), currentBlock = toBlock, clearTokenCache()
SetCheckpoint ==
  /\ pc = "checkpoint"
  /\ \/ /\ metadata' = setLastIndexedBlock(net, metadata, toBlock)
        /\ currentBlock' = toBlock
        /\ batches' = Append(batches, << BatchFrom, toBlock >>)
        /\ tokenCache' = clearTokenCache(tokenCache)
        /\ pc' = "loop"
        /\ UNCHANGED << safeBlock, toBlock, runStart, batchVars, exitCode,
                        exitReason >>
     \/ /\ Failed("setLastIndexedBlock")
        /\ UNCHANGED metadata
  /\ UNCHANGED << net, head, events, nextEventId, tokens, nextTokenId, dailyFlows,
                  srv, aggPc, harnessVars >>

\* the process is killed or the machine goes down
Crash ==
  /\ pc \notin {"stopped", "exited"}
  /\ Stopped(137, "killed")
  /\ UNCHANGED << net, head, dbVars, srv, aggPc, harnessVars >>

\* the chain grows; the head is read by MainInit only, so growth is explored
\* between runs
NewBlock ==
  /\ pc = "stopped"
  /\ head < MaxHead
  /\ head' = head + 1
  /\ UNCHANGED << net, dbVars, pc, runVars, batchVars,
                  tokenCache, exitCode, exitReason, srv, aggPc, harnessVars >>

(***************************************************************************)
(* server.ts: start-up of the web server with the one-time Polygon reset.  *)
(* Each statement is its own SQLite transaction.                           *)
(***************************************************************************)
indexerVars ==
  << pc, runVars, batchVars, tokenCache, exitCode, exitReason >>

\* migrate, then read the reset marker; the reset touches Polygon data only
\* and is explored in the Polygon behaviours
ServerStart ==
  /\ srv = "down"
  /\ net = "polygon"
  /\ srv' = IF metadata[POLYGON_RESET_KEY] = NoRow THEN "deleteEvents" ELSE "serving"
  /\ UNCHANGED << net, head, dbVars, indexerVars, aggPc, harnessVars >>

\* db.delete(events).where(chain = 'polygon')
ServerDeleteEvents ==
  /\ srv = "deleteEvents"
  /\ events' = { e \in events : e.chain # "polygon" }
  /\ srv' = "deleteCheckpoint"
  /\ UNCHANGED << net, head, metadata, nextEventId, tokens, nextTokenId, dailyFlows,
                  indexerVars, aggPc, harnessVars >>

\* db.delete(metadata).where(key = 'last_indexed_block_polygon')
ServerDeleteCheckpoint ==
  /\ srv = "deleteCheckpoint"
  /\ metadata' = [metadata EXCEPT !["last_indexed_block_polygon"] = NoRow]
  /\ srv' = "markReset"
  /\ UNCHANGED << net, head, events, nextEventId, tokens, nextTokenId, dailyFlows,
                  indexerVars, aggPc, harnessVars >>

\* db.insert(metadata).values({key: POLYGON_RESET_KEY, value: ISO date})
ServerMarkReset ==
  /\ srv = "markReset"
  /\ metadata' = [metadata EXCEPT ![POLYGON_RESET_KEY] = <<2, 0, 2, 5>>]
  /\ srv' = "serving"
  /\ UNCHANGED << net, head, events, nextEventId, tokens, nextTokenId, dailyFlows,
                  indexerVars, aggPc, harnessVars >>

\* the server process ends, at any point of its start-up or later
ServerStop ==
  /\ srv # "down"
  /\ srv' = "down"
  /\ UNCHANGED << net, head, dbVars, indexerVars, aggPc, harnessVars >>

(***************************************************************************)
(* chartData.ts: computeDailyFlows                                         *)
(***************************************************************************)
\* date(block_timestamp, 'unixepoch'): the day number of a timestamp
DateOf(ts) == ts \div SECONDS_PER_DAY

\* the rows the query reads: deposits and withdrawals with a token
FlowEvents(rows) ==
  { e \in rows : e.eventType \in {"deposit", "withdrawal"} /\ e.tokenId # NullInt }

\* GROUP BY date, chain, token_id
FlowKeys(rows) ==
  { << DateOf(e.blockTimestamp), e.chain, e.tokenId >> : e \in FlowEvents(rows) }

FlowGroup(rows, key, type) ==
  { e \in FlowEvents(rows) : /\ DateOf(e.blockTimestamp) = key[1]
                             /\ e.chain = key[2]
                             /\ e.tokenId = key[3]
                             /\ e.eventType = type }

\* sum(amount_normalized) over a group as a fraction; NULL amounts are
\* skipped and a NULL sum becomes 0
RECURSIVE SumNumerators(_)
SumNumerators(group) ==
  IF group = {} THEN 0
  ELSE LET e == CHOOSE x \in group : TRUE
       IN  (IF e.amountNormalized = NullReal THEN 0 ELSE e.amountNormalized[1])
           + SumNumerators(group \ {e})

Denominator(group) ==
  LET valued == { e \in group : e.amountNormalized # NullReal }
  IN  IF valued = {} THEN 1 ELSE (CHOOSE e \in valued : TRUE).amountNormalized[2]

SumAmounts(group) == << SumNumerators(group), Denominator(group) >>

\* fractions <<numerator, denominator>> with a positive denominator
RECURSIVE GCD(_, _)
GCD(a, b) == IF b = 0 THEN a ELSE GCD(b, a % b)
Reduce(a) ==
  LET g == GCD(IF a[1] < 0 THEN 0 - a[1] ELSE a[1], a[2])
  IN  << a[1] \div g, a[2] \div g >>
FractionEq(a, b) == a[1] * b[2] = b[1] * a[2]
FractionLess(a, b) == a[1] * b[2] < b[1] * a[2]
FractionPlus(a, b) == Reduce(<< a[1] * b[2] + b[1] * a[2], a[2] * b[2] >>)
FractionTimes(a, b) == Reduce(<< a[1] * b[1], a[2] * b[2] >>)
FractionOver(a, b) == Reduce(<< a[1] * b[2], a[2] * b[1] >>)

\* a difference taken the wrong way round
MinusReversed(a, b) == << b[1] * a[2] - a[1] * b[2], a[2] * b[2] >>

\* a - b of two fractions
Minus(a, b) ==
  << a[1] * b[2] - b[1] * a[2], a[2] * b[2] >>

\* the row computeDailyFlows builds for one group
FlowRow(rows, key) ==
  LET deposits == FlowGroup(rows, key, "deposit")
      withdrawals == FlowGroup(rows, key, "withdrawal")
  IN  [ date |-> key[1],
        chain |-> IF key[2] = NullText THEN "ethereum" ELSE key[2],
        tokenId |-> key[3],
        totalDeposits |-> SumAmounts(deposits),
        totalWithdrawals |-> SumAmounts(withdrawals),
        netFlow |-> Minus(SumAmounts(deposits), SumAmounts(withdrawals)),
        depositTxCount |-> Cardinality(deposits),
        withdrawalTxCount |-> Cardinality(withdrawals) ]

\* the privacy guardrail: groups below the threshold are skipped
Disclosed(row) == ~(row.depositTxCount + row.withdrawalTxCount < MIN_TX_THRESHOLD)

computeDailyFlows(rows) ==
  { row \in { FlowRow(rows, key) : key \in FlowKeys(rows) } : Disclosed(row) }

\* await db.delete(schema.dailyFlows); the supervisor starts the recompute
\* when an ingestion process has ended
AggDelete ==
  /\ aggPc = "idle"
  /\ pc = "stopped"
  /\ dailyFlows' = {}
  /\ aggPc' = "cleared"
  /\ UNCHANGED << net, head, metadata, events, nextEventId, tokens, nextTokenId,
                  indexerVars, srv, harnessVars >>

\* the grouped query and the inserts of the disclosed groups
AggCompute ==
  /\ aggPc = "cleared"
  /\ dailyFlows' = computeDailyFlows(events)
  /\ aggPc' = "idle"
  /\ UNCHANGED << net, head, metadata, events, nextEventId, tokens, nextTokenId,
                  indexerVars, srv, harnessVars >>

\* the aggregation process ends after the delete
AggAbort ==
  /\ aggPc = "cleared"
  /\ aggPc' = "idle"
  /\ UNCHANGED << net, head, dbVars, indexerVars, srv, harnessVars >>

Next ==
  \/ StartIndexer
  \/ IndexerExited
  \/ MainInit
  \/ CaughtUp
  \/ BeginBatch
  \/ ProcessLog
  \/ EndBatch
  \/ SetCheckpoint
  \/ Crash
  \/ NewBlock
  \/ ServerStart
  \/ ServerDeleteEvents
  \/ ServerDeleteCheckpoint
  \/ ServerMarkReset
  \/ ServerStop
  \/ AggDelete
  \/ AggCompute
  \/ AggAbort

Spec == Init /\ [][Next]_vars

(***************************************************************************)
(* The decoders applied to arbitrary logs                                  *)
(***************************************************************************)
RECURSIVE WordSeqs(_)
WordSeqs(n) ==
  IF n = 0 THEN { << >> }
  ELSE WordSeqs(n - 1)
       \cup { Append(d, w) : d \in { x \in WordSeqs(n - 1) : Len(x) = n - 1 },
                             w \in {0, TOKEN_A, FULL} }

TopicInputs ==
  { << >>, <<SEL_UNKNOWN>>, <<SEL_UNKNOWN, USER>>, <<SEL_SHIELD>>, <<SEL_TRANSACT>>,
    <<SEL_UNSHIELD>>, <<SEL_UNSHIELD, USER, TOKEN_A>>,
    <<SEL_RELAYER_PAYMENT, USER, TOKEN_A>>,
    <<POLYGON_EVENT_SIGNATURES.UNSHIELD>>, <<POLYGON_EVENT_SIGNATURES.SHIELD>> }

LogInputs ==
  { Log(1, "0xt", 0, "Relay", topics, data) :
      topics \in TopicInputs, data \in WordSeqs(MaxWords) }

InitDecoder ==
  /\ net \in Networks
  /\ head = CONFIRMATION_BLOCKS
  /\ metadata = EmptyMetadata
  /\ events = {}
  /\ nextEventId = 1
  /\ tokens = {}
  /\ nextTokenId = 1
  /\ dailyFlows = {}
  /\ pc = "stopped"
  /\ safeBlock = 0
  /\ currentBlock = 0
  /\ toBlock = 0
  /\ logs = << >>
  /\ logPos = 1
  /\ eventsToInsert = << >>
  /\ timestamps = {}
  /\ txSenders = {}
  /\ tokenCache = {}
  /\ exitCode = NullInt
  /\ exitReason = "none"
  /\ batchBaseId = 1
  /\ runStart = 0
  /\ batches = << >>
  /\ srv = "down"
  /\ aggPc = "idle"
  /\ dlog \in LogInputs
  /\ dout = NotDecoded
  /\ InitAux

pipelineVars == << net, head, dbVars, indexerVars, srv, aggPc >>

Output(by, result) == [ by |-> by, threw |-> result.threw, events |-> result.events ]

\* decodeSmartWalletEvent(log)
DecodeSmartWallet ==
  /\ dout.by = "none"
  /\ dout' = Output("decodeSmartWalletEvent", decodeSmartWalletEvent(dlog))
  /\ UNCHANGED << pipelineVars, dlog, auxVars >>

\* decodeRelayEvent(log, RELAY_ABI) as the Polygon loop calls it
DecodeRelayPolygon ==
  /\ dout.by = "none"
  /\ net = "polygon"
  /\ dout' = Output("decodeRelayEvent", decodeRelayEvent(dlog, POLYGON_RELAY_ABI))
  /\ UNCHANGED << pipelineVars, dlog, auxVars >>

\* decodeRelayEvent(log) as the Ethereum loop calls it
DecodeRelayEthereum ==
  /\ dout.by = "none"
  /\ net = "ethereum"
  /\ dout' = Output("decodeRelayEvent", decodeRelayEvent(dlog, RELAY_ABI))
  /\ UNCHANGED << pipelineVars, dlog, auxVars >>

NextDecoder ==
  \/ DecodeSmartWallet
  \/ DecodeRelayPolygon
  \/ DecodeRelayEthereum

SpecDecoder == InitDecoder /\ [][NextDecoder]_vars

(***************************************************************************)
(* chartData.ts: computeRelayerStats                                       *)
(***************************************************************************)
\* the rows the query reads: withdrawals with a relayer address
RelayerEvents(rows) ==
  { e \in rows : e.eventType = "withdrawal" /\ e.relayerAddress # NullText }

\* sum(amount_normalized) of a group; NULL amounts are skipped
RECURSIVE SumVolume(_)
SumVolume(group) ==
  IF group = {} THEN <<0, 1>>
  ELSE LET e == CHOOSE x \in group : TRUE
           rest == SumVolume(group \ {e})
       IN  IF e.amountNormalized = NullReal THEN rest
           ELSE FractionPlus(e.amountNormalized, rest)

\* GROUP BY date, chain, relayer_address: one payment per group
Payments(rows) ==
  { [ date |-> DateOf(e.blockTimestamp), chain |-> e.chain,
      relayer |-> e.relayerAddress,
      volume |-> SumVolume({ x \in RelayerEvents(rows) :
                               /\ DateOf(x.blockTimestamp) = DateOf(e.blockTimestamp)
                               /\ x.chain = e.chain
                               /\ x.relayerAddress = e.relayerAddress }),
      txCount |-> Cardinality({ x \in RelayerEvents(rows) :
                               /\ DateOf(x.blockTimestamp) = DateOf(e.blockTimestamp)
                               /\ x.chain = e.chain
                               /\ x.relayerAddress = e.relayerAddress }) ]
    : e \in RelayerEvents(rows) }

\* byDateAndChain: payments without a chain are skipped
ByDateAndChain(payments, date, chain) ==
  { p \in payments : p.chain # NullText /\ p.date = date /\ p.chain = chain }

RECURSIVE TotalVolume(_)
TotalVolume(relayers) ==
  IF relayers = {} THEN <<0, 1>>
  ELSE LET r == CHOOSE x \in relayers : TRUE
       IN  FractionPlus(r.volume, TotalVolume(relayers \ {r}))

RECURSIVE TotalTxCount(_)
TotalTxCount(relayers) ==
  IF relayers = {} THEN 0
  ELSE LET r == CHOOSE x \in relayers : TRUE
       IN  r.txCount + TotalTxCount(relayers \ {r})

\* relayers.sort(volume descending).slice(0, k), summed
RECURSIVE TopVolume(_, _)
TopVolume(relayers, k) ==
  IF k = 0 \/ relayers = {} THEN <<0, 1>>
  ELSE LET top == CHOOSE r \in relayers :
                    \A q \in relayers : ~FractionLess(r.volume, q.volume)
       IN  FractionPlus(top.volume, TopVolume(relayers \ {top}, k - 1))

\* hhi += share * share over the relayers
RECURSIVE SumSquaredShares(_, _)
SumSquaredShares(relayers, totalVolume) ==
  IF relayers = {} THEN <<0, 1>>
  ELSE LET r == CHOOSE x \in relayers : TRUE
           share == FractionOver(r.volume, totalVolume)
       IN  FractionPlus(FractionTimes(share, share),
                        SumSquaredShares(relayers \ {r}, totalVolume))

TOP_RELAYERS == 5

\* the row computeRelayerStats inserts for one (date, chain)
RelayerStatRow(payments, date, chain) ==
  LET relayers == ByDateAndChain(payments, date, chain)
      totalVolume == TotalVolume(relayers)
  IN  [ date |-> date,
        chain |-> chain,
        numActiveRelayers |-> Cardinality(relayers),
        top5Share |-> IF totalVolume[1] > 0
                      THEN FractionOver(TopVolume(relayers, TOP_RELAYERS), totalVolume)
                      ELSE <<0, 1>>,
        hhi |-> IF totalVolume[1] > 0
                THEN SumSquaredShares(relayers, totalVolume)
                ELSE <<0, 1>>,
        relayerTxCount |-> TotalTxCount(relayers) ]

computeRelayerStats(rows) ==
  { RelayerStatRow(Payments(rows), p.date, p.chain) :
      p \in { q \in Payments(rows) : q.chain # NullText } }

\* await db.delete(schema.relayerStatsDaily)
RelayerDelete ==
  /\ relPc = "idle"
  /\ relayerStatsDaily' = {}
  /\ relPc' = "cleared"
  /\ UNCHANGED << pipelineVars, dlog, dout, normVars, resolverVars, supervisorVars, fnVars >>

\* the grouped query and one insert per (date, chain)
RelayerCompute ==
  /\ relPc = "cleared"
  /\ relayerStatsDaily' = computeRelayerStats(events)
  /\ relPc' = "idle"
  /\ UNCHANGED << pipelineVars, dlog, dout, normVars, resolverVars, supervisorVars, fnVars >>

\* the process ends after the delete
RelayerAbort ==
  /\ relPc = "cleared"
  /\ relPc' = "idle"
  /\ UNCHANGED << pipelineVars, dlog, dout, relayerStatsDaily, normVars,
                  resolverVars, supervisorVars, fnVars >>

WithdrawalTx ==
  << "0xw1", "0xw2", "0xw3", "0xw4", "0xw5", "0xw6", "0xw7", "0xw8", "0xw9" >>

\* a stored withdrawal of TOKEN_A (token row 1) in a block, sent by a relayer
StoredWithdrawal(n, id, block, relayer, amountNormalized) ==
  WithId(NewEvent(n, Log(block, WithdrawalTx[id], 0, "Relay", <<SEL_UNSHIELD>>,
                         UnshieldData(TOKEN_A, 0, 0)),
                  0,
                  DecodedEvent("Unshield", "withdrawal", AddressOfWord(TOKEN_A), 0,
                               AddressOfWord(USER), [fee |-> 0, note |-> ""]),
                  1, amountNormalized, relayer),
         id)

\* withdrawals of six relayers on one day, one of unknown amount, one
\* whose sender could not be read, and one on a later day
WithdrawalPool(n) ==
  { StoredWithdrawal(n, 1, 1, "0xr1", <<70, 1>>),
    StoredWithdrawal(n, 2, 1, "0xr2", <<20, 1>>),
    StoredWithdrawal(n, 3, 1, "0xr3", <<10, 1>>),
    StoredWithdrawal(n, 4, 1, "0xr4", <<5, 1>>),
    StoredWithdrawal(n, 5, 1, "0xr5", <<3, 1>>),
    StoredWithdrawal(n, 6, 1, "0xr6", <<2, 1>>),
    StoredWithdrawal(n, 7, 2, "0xr1", NullReal),
    StoredWithdrawal(n, 8, 2, NullText, <<40, 1>>),
    StoredWithdrawal(n, 9, 3, "0xr2", <<8, 1>>) }

InitRelayer ==
  /\ net \in Networks
  /\ head = CONFIRMATION_BLOCKS + 3
  /\ metadata = setLastIndexedBlock(net, EmptyMetadata, 3)
  /\ events \in SUBSET WithdrawalPool(net)
  /\ nextEventId = Cardinality(WithdrawalPool(net)) + 1
  /\ tokens = { [ id |-> 1, chain |-> InsertedChain(net),
                  address |-> getAddress(AddressOfWord(TOKEN_A)),
                  symbol |-> TokenSymbol(AddressOfWord(TOKEN_A).bytes),
                  decimals |-> TokenDecimals(AddressOfWord(TOKEN_A).bytes) ] }
  /\ nextTokenId = 2
  /\ dailyFlows = {}
  /\ pc = "stopped"
  /\ safeBlock = 0
  /\ currentBlock = 0
  /\ toBlock = 0
  /\ logs = << >>
  /\ logPos = 1
  /\ eventsToInsert = << >>
  /\ timestamps = {}
  /\ txSenders = {}
  /\ tokenCache = {}
  /\ exitCode = NullInt
  /\ exitReason = "none"
  /\ batchBaseId = 1
  /\ runStart = 0
  /\ batches = << >>
  /\ srv = "down"
  /\ aggPc = "idle"
  /\ dlog = NoLog
  /\ dout = NotDecoded
  /\ InitAux

NextRelayer ==
  \/ RelayerDelete
  \/ RelayerCompute
  \/ RelayerAbort

SpecRelayer == InitRelayer /\ [][NextRelayer]_vars

(***************************************************************************)
(* indexBatch: the normalized amount of an event, applied to arbitrary     *)
(* raw amounts and token rows                                              *)
(***************************************************************************)
MaxDecimals == 3

RawAmounts == {NullInt, 0, 1, 5, 10, 99, 100, 1000, 12345}
DecimalsInputs == {NullInt} \cup (0..MaxDecimals)

InitNormalize ==
  /\ net \in Networks
  /\ head = CONFIRMATION_BLOCKS
  /\ metadata = EmptyMetadata
  /\ events = {}
  /\ nextEventId = 1
  /\ \E d \in DecimalsInputs :
       tokens = { [ id |-> 1, chain |-> InsertedChain(net),
                    address |-> getAddress(AddressOfWord(TOKEN_A)),
                    symbol |-> IF d = NullInt THEN NullText ELSE "AAA",
                    decimals |-> d ] }
  /\ nextTokenId = 2
  /\ dailyFlows = {}
  /\ pc = "stopped"
  /\ safeBlock = 0
  /\ currentBlock = 0
  /\ toBlock = 0
  /\ logs = << >>
  /\ logPos = 1
  /\ eventsToInsert = << >>
  /\ timestamps = {}
  /\ txSenders = {}
  /\ tokenCache = {}
  /\ exitCode = NullInt
  /\ exitReason = "none"
  /\ batchBaseId = 1
  /\ runStart = 0
  /\ batches = << >>
  /\ srv = "down"
  /\ aggPc = "idle"
  /\ dlog = NoLog
  /\ dout = NotDecoded
  /\ InitRelayerVars
  /\ InitResolverVars
  /\ InitSupervisorVars
  /\ InitFnVars
  /\ nin \in [ rawAmountWei : RawAmounts, tokenId : {NullInt, 1} ]
  /\ nout = NotNormalized

\* let amountNormalized = null; if (decoded.rawAmountWei && tokenId) { ... }
NormalizeAmount ==
  /\ ~nout.done
  /\ nout' = [ done |-> TRUE,
               amountNormalized |-> Normalize(nin.rawAmountWei, nin.tokenId, tokens) ]
  /\ UNCHANGED << pipelineVars, dlog, dout, relayerVars, nin, resolverVars,
                  supervisorVars, fnVars >>

NextNormalize == NormalizeAmount

SpecNormalize == InitNormalize /\ [][NextNormalize]_vars

(***************************************************************************)
(* resolveTokenId of both resolvers, one step per await, for two calls     *)
(* that run at the same time                                               *)
(***************************************************************************)
Callers == {1, 2}

\* UNIQUE(chain, address): NULL chains never compare equal
TokenConflicts(toks, row) ==
  \E t \in toks : /\ row.chain # NullText
                  /\ t.chain = row.chain
                  /\ t.address = row.address

\* the tokenCache a call uses: one per resolver module and process
CacheOf(i) ==
  IF rcalls[1].net = rcalls[2].net /\ rcalls[1].process = rcalls[2].process
  THEN 1 ELSE i

Call(n, process, address) ==
  [ net |-> n, process |-> process, tokenAddress |-> address, pc |-> "start",
    fetchFailed |-> FALSE, insertedId |-> NullInt, result |-> NullInt ]

\* a fetch whose failure ends the call without an id
AfterFetchRaising(call, ok) ==
  IF ok THEN [call EXCEPT !.pc = "insert"]
  ELSE [call EXCEPT !.pc = "done", !.fetchFailed = TRUE]

\* try { symbol, decimals = await Promise.all(...) } catch { warn }
AfterFetch(call, ok) ==
  [call EXCEPT !.pc = "insert", !.fetchFailed = ~ok]

\* getAddress, the cache check and the first select
ResolveLookup(i) ==
  /\ rcalls[i].pc = "start"
  /\ LET checksummed == getAddress(rcalls[i].tokenAddress)
         cached == { c \in rcache[CacheOf(i)] : c.address = checksummed }
         existing == TokenMatches(rcalls[i].net, tokens, checksummed)
     IN  IF cached # {}
         THEN /\ rcalls' = [rcalls EXCEPT ![i].pc = "done",
                                          ![i].result = (CHOOSE c \in cached : TRUE).id]
              /\ UNCHANGED rcache
         ELSE IF existing # {}
         THEN /\ rcalls' = [rcalls EXCEPT ![i].pc = "done",
                                          ![i].result = FirstRow(existing).id]
              /\ rcache' = [rcache EXCEPT ![CacheOf(i)] =
                              @ \cup {[address |-> checksummed,
                                       id |-> FirstRow(existing).id]}]
         ELSE /\ rcalls' = [rcalls EXCEPT ![i].pc = "fetch"]
              /\ UNCHANGED rcache
  /\ UNCHANGED << pipelineVars, dlog, dout, relayerVars, normVars, supervisorVars, fnVars >>

\* the symbol() and decimals() reads
ResolveFetch(i) ==
  /\ rcalls[i].pc = "fetch"
  /\ \E ok \in BOOLEAN : rcalls' = [rcalls EXCEPT ![i] = AfterFetch(@, ok)]
  /\ UNCHANGED << pipelineVars, dlog, dout, relayerVars, normVars, rcache,
                  supervisorVars, fnVars >>

\* insert(schema.tokens).values(...).onConflictDoNothing()
ResolveInsert(i) ==
  /\ rcalls[i].pc = "insert"
  /\ LET checksummed == getAddress(rcalls[i].tokenAddress)
         metaOk == ~rcalls[i].fetchFailed
         row == [ id |-> nextTokenId, chain |-> InsertedChain(rcalls[i].net),
                  address |-> checksummed,
                  symbol |-> IF metaOk THEN TokenSymbol(checksummed.bytes) ELSE NullText,
                  decimals |-> IF metaOk THEN TokenDecimals(checksummed.bytes)
                               ELSE NullInt ]
     IN  IF TokenConflicts(tokens, row)
         THEN /\ rcalls' = [rcalls EXCEPT ![i].pc = "reselect"]
              /\ UNCHANGED << tokens, nextTokenId >>
         ELSE /\ tokens' = tokens \cup {row}
              /\ nextTokenId' = nextTokenId + 1
              /\ rcalls' = [rcalls EXCEPT ![i].pc = "reselect",
                                          ![i].insertedId = nextTokenId]
  /\ UNCHANGED << net, head, metadata, events, nextEventId, dailyFlows, indexerVars,
                  srv, aggPc, dlog, dout, relayerVars, normVars, rcache,
                  supervisorVars, fnVars >>

\* the select after the insert, the cache write and the return
ResolveReselect(i) ==
  /\ rcalls[i].pc = "reselect"
  /\ LET checksummed == getAddress(rcalls[i].tokenAddress)
         inserted == TokenMatches(rcalls[i].net, tokens, checksummed)
     IN  IF inserted # {}
         THEN /\ rcalls' = [rcalls EXCEPT ![i].pc = "done",
                                          ![i].result = FirstRow(inserted).id]
              /\ rcache' = [rcache EXCEPT ![CacheOf(i)] =
                              @ \cup {[address |-> checksummed,
                                       id |-> FirstRow(inserted).id]}]
         ELSE /\ rcalls' = [rcalls EXCEPT ![i].pc = "done"]
              /\ UNCHANGED rcache
  /\ UNCHANGED << pipelineVars, dlog, dout, relayerVars, normVars, supervisorVars, fnVars >>

\* the two spellings a log gives of one token address
AddressInputs ==
  { Address(AddressOfWord(TOKEN_A).bytes, form) : form \in {"lower", "checksum"} }

InitResolver ==
  /\ net \in Networks
  /\ head = CONFIRMATION_BLOCKS
  /\ metadata = EmptyMetadata
  /\ events = {}
  /\ nextEventId = 1
  /\ tokens = {}
  /\ nextTokenId = 1
  /\ dailyFlows = {}
  /\ pc = "stopped"
  /\ safeBlock = 0
  /\ currentBlock = 0
  /\ toBlock = 0
  /\ logs = << >>
  /\ logPos = 1
  /\ eventsToInsert = << >>
  /\ timestamps = {}
  /\ txSenders = {}
  /\ tokenCache = {}
  /\ exitCode = NullInt
  /\ exitReason = "none"
  /\ batchBaseId = 1
  /\ runStart = 0
  /\ batches = << >>
  /\ srv = "down"
  /\ aggPc = "idle"
  /\ dlog = NoLog
  /\ dout = NotDecoded
  /\ InitRelayerVars
  /\ InitNormVars
  /\ InitSupervisorVars
  /\ InitFnVars
  /\ \E n \in Networks, process \in Callers, a, b \in AddressInputs :
       rcalls = << Call(net, 1, a), Call(n, process, b) >>
  /\ rcache = << {}, {} >>

NextResolver ==
  \/ \E i \in Callers : ResolveLookup(i)
  \/ \E i \in Callers : ResolveFetch(i)
  \/ \E i \in Callers : ResolveInsert(i)
  \/ \E i \in Callers : ResolveReselect(i)

SpecResolver == InitResolver /\ [][NextResolver]_vars

(***************************************************************************)
(* start-all.ts: the supervisor's aggregation triggers                     *)
(***************************************************************************)
\* a guard that lets every call through
MayStartAlways(running) == TRUE

\* if (analyticsRunning) { skip; return }
MayStart(running) == ~running

InFlight == { t \in Triggers : analyticsRuns[t] # "none" }

\* a callback that schedules the restart after a failure only
SchedulesRestartOnFailureOnly(code) == code # 0

\* if (code !== 0) { setTimeout(start, delay) } else { setTimeout(start, delay) }
SchedulesRestart(code) ==
  IF code # 0 THEN TRUE ELSE TRUE

\* the callback's position after its await of runAnalytics()
AfterAnalytics(code) ==
  IF SchedulesRestart(code) THEN "delay" ELSE "ended"

\* runAnalytics() up to its first await: the flag test, the flag write and
\* the spawn of dailyFlows.ts
runAnalytics(t) ==
  IF MayStart(analyticsRunning)
  THEN /\ analyticsRuns[t] = "none"
       /\ analyticsRunning' = TRUE
       /\ analyticsRuns' = [analyticsRuns EXCEPT ![t] = "dailyFlows"]
       /\ lastTrigger' = [ by |-> t, ran |-> TRUE ]
       /\ rebuilt' = [rebuilt EXCEPT ![t] = {}]
  ELSE /\ lastTrigger' = [ by |-> t, ran |-> FALSE ]
       /\ UNCHANGED << analyticsRunning, analyticsRuns, rebuilt >>

\* the derived table the script of a stage of runAnalytics rebuilds
Rebuilds(stage) ==
  IF stage = "dailyFlows" THEN "DailyFlow" ELSE "RelayerStatsDaily"

\* the timers of a network once its callback is past the if/else
TimersAfter(n, code) ==
  [timers EXCEPT ![n] = IF SchedulesRestart(code) THEN @ + 1 ELSE @]

MaxProcs == 2

\* a timer that stays armed after it fired (setInterval)
AfterFiringRepeating(pending) == pending

\* setTimeout: the timer fires once
AfterFiring(pending) == pending - 1

\* setInterval(() => runAnalytics().catch(console.error), ...)
IntervalTick ==
  /\ runAnalytics("interval")
  /\ UNCHANGED << pipelineVars, dlog, dout, relayerVars, normVars, resolverVars, fnVars,
                  indexerStatus, supPc, lastEnd, liveProcs, timers >>

\* proc.exited.then(async (code) => { ...; await runAnalytics(); ... }) up to
\* the await; a skipped call returns at once and the restart is scheduled
OnIndexerExit(n) ==
  /\ supPc[n] = "running"
  /\ liveProcs[n] > 0
  /\ liveProcs' = [liveProcs EXCEPT ![n] = @ - 1]
  /\ \E code \in {0, 1} :
       indexerStatus' = [indexerStatus EXCEPT ![n] =
                           [ running |-> FALSE, lastExitCode |-> code ]]
  /\ runAnalytics(n)
  /\ supPc' = [supPc EXCEPT ![n] =
                IF analyticsRuns'[n] # "none" THEN "analytics"
                ELSE AfterAnalytics(indexerStatus'[n].lastExitCode)]
  /\ timers' = IF analyticsRuns'[n] # "none" THEN timers
               ELSE TimersAfter(n, indexerStatus'[n].lastExitCode)
  /\ UNCHANGED << pipelineVars, dlog, dout, relayerVars, normVars, resolverVars, fnVars,
                  lastEnd >>

\* await flowsProc.exited; then the spawn of relayerStats.ts
FlowsProcExited(t) ==
  /\ analyticsRuns[t] = "dailyFlows"
  /\ analyticsRuns' = [analyticsRuns EXCEPT ![t] = "relayerStats"]
  /\ rebuilt' = [rebuilt EXCEPT ![t] = @ \cup {Rebuilds("dailyFlows")}]
  /\ UNCHANGED << pipelineVars, dlog, dout, relayerVars, normVars, resolverVars, fnVars,
                  analyticsRunning, indexerStatus, supPc, lastTrigger, lastEnd,
                  liveProcs, timers >>

\* the end of a run: finally { analyticsRunning = false }; the callback that
\* awaited it schedules the restart of its indexer
EndRun(t, how) ==
  /\ analyticsRunning' = FALSE
  /\ analyticsRuns' = [analyticsRuns EXCEPT ![t] = "none"]
  /\ lastEnd' = how
  /\ supPc' = IF t \in Networks
              THEN [supPc EXCEPT ![t] = AfterAnalytics(indexerStatus[t].lastExitCode)]
              ELSE supPc
  /\ timers' = IF t \in Networks
               THEN TimersAfter(t, indexerStatus[t].lastExitCode) ELSE timers
  /\ rebuilt' = IF how = "complete"
                THEN [rebuilt EXCEPT ![t] = @ \cup {Rebuilds(analyticsRuns[t])}]
                ELSE rebuilt
  /\ UNCHANGED << pipelineVars, dlog, dout, relayerVars, normVars, resolverVars, fnVars,
                  indexerStatus, lastTrigger, liveProcs >>

\* await relayerProc.exited; 'Analytics complete.'
RelayerProcExited(t) ==
  /\ analyticsRuns[t] = "relayerStats"
  /\ EndRun(t, "complete")

\* a spawn or an await of the run throws
AnalyticsFailed(t) ==
  /\ analyticsRuns[t] # "none"
  /\ EndRun(t, "failed")

\* setTimeout(() => startEthereumIndexer() / startPolygonIndexer(), ...)
RestartIndexer(n) ==
  /\ timers[n] > 0
  /\ liveProcs[n] < MaxProcs
  /\ timers' = [timers EXCEPT ![n] = AfterFiring(@)]
  /\ liveProcs' = [liveProcs EXCEPT ![n] = @ + 1]
  /\ supPc' = [supPc EXCEPT ![n] = "running"]
  /\ indexerStatus' = [indexerStatus EXCEPT ![n].running = TRUE]
  /\ UNCHANGED << pipelineVars, dlog, dout, relayerVars, normVars, resolverVars, fnVars,
                  analyticsRunning, analyticsRuns, lastTrigger, lastEnd, rebuilt >>

\* the state main() of start-all.ts leaves: the first run in flight and
\* both indexers started
InitSupervisor ==
  /\ net \in Networks
  /\ head = CONFIRMATION_BLOCKS
  /\ metadata = EmptyMetadata
  /\ events = {}
  /\ nextEventId = 1
  /\ tokens = {}
  /\ nextTokenId = 1
  /\ dailyFlows = {}
  /\ pc = "stopped"
  /\ safeBlock = 0
  /\ currentBlock = 0
  /\ toBlock = 0
  /\ logs = << >>
  /\ logPos = 1
  /\ eventsToInsert = << >>
  /\ timestamps = {}
  /\ txSenders = {}
  /\ tokenCache = {}
  /\ exitCode = NullInt
  /\ exitReason = "none"
  /\ batchBaseId = 1
  /\ runStart = 0
  /\ batches = << >>
  /\ srv = "down"
  /\ aggPc = "idle"
  /\ dlog = NoLog
  /\ dout = NotDecoded
  /\ InitRelayerVars
  /\ InitNormVars
  /\ InitResolverVars
  /\ InitFnVars
  /\ analyticsRunning = TRUE
  /\ analyticsRuns = [ t \in Triggers |-> IF t = "interval" THEN "dailyFlows" ELSE "none" ]
  /\ indexerStatus = [ n \in Networks |-> [ running |-> TRUE, lastExitCode |-> NullInt ] ]
  /\ supPc = [ n \in Networks |-> "running" ]
  /\ lastTrigger = [ by |-> "interval", ran |-> TRUE ]
  /\ lastEnd = "none"
  /\ liveProcs = [ n \in Networks |-> 1 ]
  /\ timers = [ n \in Networks |-> 0 ]
  /\ rebuilt = [ t \in Triggers |-> {} ]

NextSupervisor ==
  \/ IntervalTick
  \/ \E n \in Networks : OnIndexerExit(n)
  \/ \E t \in Triggers : FlowsProcExited(t)
  \/ \E t \in Triggers : RelayerProcExited(t)
  \/ \E t \in Triggers : AnalyticsFailed(t)
  \/ \E n \in Networks : RestartIndexer(n)

SpecSupervisor == InitSupervisor /\ [][NextSupervisor]_vars

\* the child processes of a run end and a timer that was set fires: the
\* callback of an exited indexer is not left waiting for ever
SupervisorFairness ==
  \A n \in Networks :
    /\ WF_vars(FlowsProcExited(n))
    /\ WF_vars(RelayerProcExited(n))
    /\ WF_vars(RestartIndexer(n))

SpecSupervisorLive == SpecSupervisor /\ SupervisorFairness

(***************************************************************************)
(* withRetry and the calls and writes of the ingestion loop                *)
(***************************************************************************)
(* main() of both loops with each batch as one step, for the ranges of     *)
(* the batches of consecutive runs; the rows a batch writes are left out.  *)
(***************************************************************************)
\* a catch that stores the upper bound although the batch failed
AfterFailedBatchAdvanced(n, md, to) == setLastIndexedBlock(n, md, to)

\* the catch of main logs and rethrows: setLastIndexedBlock was not reached
AfterFailedBatch(n, md, to) == md

\* one iteration of the while loop in which nothing throws
BatchCommitted ==
  /\ pc = "loop"
  /\ LoopTest
  /\ metadata' = setLastIndexedBlock(net, metadata, NextToBlock)
  /\ currentBlock' = NextToBlock
  /\ toBlock' = NextToBlock
  /\ batches' = Append(batches, << BatchFrom, NextToBlock >>)
  /\ lastFailed' = << >>
  /\ UNCHANGED << net, head, events, nextEventId, tokens, nextTokenId, dailyFlows,
                  pc, safeBlock, runStart, batchVars, tokenCache, exitCode, exitReason,
                  srv, aggPc, dlog, dout, relayerVars, normVars, resolverVars,
                  supervisorVars, retry, sub, feeVars >>

\* one iteration in which indexBatch or setLastIndexedBlock throws: "Failed
\* to index batch a-b", and the rejection ends the process
BatchFailed ==
  /\ pc = "loop"
  /\ LoopTest
  /\ metadata' = AfterFailedBatch(net, metadata, NextToBlock)
  /\ lastFailed' = << BatchFrom, NextToBlock >>
  /\ Failed("indexBatch")
  /\ UNCHANGED << net, head, events, nextEventId, tokens, nextTokenId, dailyFlows,
                  srv, aggPc, dlog, dout, relayerVars, normVars, resolverVars,
                  supervisorVars, retry, sub, feeVars >>

NextRerun ==
  \/ StartIndexer
  \/ IndexerExited
  \/ MainInit
  \/ CaughtUp
  \/ BatchCommitted
  \/ BatchFailed
  \/ Crash
  \/ NewBlock
  \/ ServerStart
  \/ ServerDeleteEvents
  \/ ServerDeleteCheckpoint
  \/ ServerMarkReset
  \/ ServerStop

SpecRerun == Init /\ [][NextRerun]_vars

(***************************************************************************)
MAX_RETRIES == 5
RETRY_DELAY_MS == 5000
RATE_LIMIT_DELAY_MS == 30000
SQLITE_BUSY_DELAY_MS == 10000

\* client.getBlockNumber, client.getLogs, client.getBlock,
\* client.getTransaction and the resolver's client.readContract pair
NetworkCalls ==
  { "getBlockNumber", "getLogs", "getBlock", "getTransaction", "readContract" }

\* the insert of event rows, the resolver's insert of a token row and the
\* upsert of the checkpoint row
StoreWrites == { "eventsPersist", "tokenInsert", "setLastIndexedBlock" }

CallSites == NetworkCalls \cup StoreWrites

\* what one call of fn() does: it resolves, or it rejects with a message
\* that withRetry takes for a rate limit, for a busy store, or for neither
Outcomes(site) ==
  IF site \in NetworkCalls THEN { "ok", "rateLimit", "generic" }
  ELSE { "ok", "sqliteBusy", "generic" }

\* a loop in which every call and write goes through withRetry
WrappedEverywhere(n, site) == TRUE

\* the call sites whose fn is handed to withRetry
Wrapped(n, site) ==
  \/ site \in { "getBlockNumber", "getLogs", "getBlock", "getTransaction" }
  \/ site = "eventsPersist" /\ n = "polygon"

\* the call sites inside a try whose catch goes on: getTransactionSender
\* returns null, resolveTokenId keeps null metadata
Caught(site) == site \in { "getTransaction", "readContract" }

\* a wait before every next iteration, the one after the last attempt too
SleepsAfterEveryAttempt(attempt) == TRUE

\* if (attempt < MAX_RETRIES) { await sleep(delay) }
Sleeps(attempt) == attempt < MAX_RETRIES

\* the delay withRetry computes in its catch block
Delay(n, kind, attempt) ==
  IF n = "polygon"
  THEN IF kind = "rateLimit" THEN RATE_LIMIT_DELAY_MS * attempt
       ELSE IF kind = "sqliteBusy" THEN SQLITE_BUSY_DELAY_MS * attempt
       ELSE RETRY_DELAY_MS * attempt
  ELSE RETRY_DELAY_MS * attempt

\* the rejection leaves the call site: into the caller's catch, or out of
\* indexBatch and main, which ends the run
Rejected(r) ==
  [r EXCEPT !.pc = IF Caught(r.site) THEN "caught" ELSE "threw"]

\* attempt++ and the test attempt <= MAX_RETRIES; throw lastError after the
\* loop
NextIteration(r) ==
  IF r.attempt + 1 <= MAX_RETRIES
  THEN [r EXCEPT !.attempt = r.attempt + 1, !.pc = "attempt"]
  ELSE Rejected([r EXCEPT !.attempt = r.attempt + 1])

\* one call of fn(): return await fn(), or the catch block up to its sleep;
\* a call site without withRetry makes the one call
RetryAttempt ==
  /\ retry.pc = "attempt"
  /\ \E outcome \in Outcomes(retry.site) :
       LET called == [retry EXCEPT !.calls = Append(retry.calls, outcome)]
           failed == [called EXCEPT !.lastError = outcome]
       IN  retry' =
             IF outcome = "ok" THEN [called EXCEPT !.pc = "returned"]
             ELSE IF ~Wrapped(retry.n, retry.site) THEN Rejected(failed)
             ELSE IF Sleeps(retry.attempt) THEN [failed EXCEPT !.pc = "sleep"]
             ELSE NextIteration(failed)
  /\ UNCHANGED << pipelineVars, dlog, dout, relayerVars, normVars, resolverVars,
                  supervisorVars, sub, feeVars, lastFailed >>

\* await sleep(delay), then the next iteration
RetrySleep ==
  /\ retry.pc = "sleep"
  /\ retry' =
       NextIteration([retry EXCEPT !.waits =
         Append(retry.waits, Delay(retry.n, retry.lastError, retry.attempt))])
  /\ UNCHANGED << pipelineVars, dlog, dout, relayerVars, normVars, resolverVars,
                  supervisorVars, sub, feeVars, lastFailed >>

IdlePipeline ==
  /\ net \in Networks
  /\ head = CONFIRMATION_BLOCKS
  /\ metadata = EmptyMetadata
  /\ events = {}
  /\ nextEventId = 1
  /\ tokens = {}
  /\ nextTokenId = 1
  /\ dailyFlows = {}
  /\ pc = "stopped"
  /\ safeBlock = 0
  /\ currentBlock = 0
  /\ toBlock = 0
  /\ logs = << >>
  /\ logPos = 1
  /\ eventsToInsert = << >>
  /\ timestamps = {}
  /\ txSenders = {}
  /\ tokenCache = {}
  /\ exitCode = NullInt
  /\ exitReason = "none"
  /\ batchBaseId = 1
  /\ runStart = 0
  /\ batches = << >>
  /\ srv = "down"
  /\ aggPc = "idle"
  /\ dlog = NoLog
  /\ dout = NotDecoded

\* a call site of the network's loop is reached
InitRetry ==
  /\ IdlePipeline
  /\ InitRelayerVars
  /\ InitNormVars
  /\ InitResolverVars
  /\ InitSupervisorVars
  /\ sub = NoPair
  /\ lastFailed = << >>
  /\ InitFeeVars
  /\ \E site \in CallSites :
       retry = [ n |-> net, site |-> site, attempt |-> 1, calls |-> << >>,
                 waits |-> << >>, pc |-> "attempt", lastError |-> "none" ]

NextRetry ==
  \/ RetryAttempt
  \/ RetrySleep

SpecRetry == InitRetry /\ [][NextRetry]_vars


(***************************************************************************)
(* indexBatch: the index two decoded events of one transaction are stored  *)
(* at                                                                      *)
(***************************************************************************)
MaxLogIndex == 1
MaxSubEntries == 100

\* a decoded event named by the log it comes from and its position i in the
\* array the decoder returned for that log
Positions == [ logIndex : 0..MaxLogIndex, i : 0..MaxSubEntries ]

SubIndexTx == "0xs1"

\* the (chain, tx hash, log index) columns of the row indexBatch builds for
\* the event at position p
StoredKey(n, p) ==
  LET log == Log(1, SubIndexTx, p.logIndex, "SmartWallet", << >>, << >>)
      decoded == DecodedEvent("Shield", "deposit", NoAddress, NullInt, NullText, << >>)
      row == NewEvent(n, log, p.i, decoded, NullInt, NullReal, NullText)
  IN  << row.chain, row.txHash, row.logIndex >>

\* the loop builds the rows of both events
BuildRows ==
  /\ sub # NoPair
  /\ sub.keys = << >>
  /\ sub' = [sub EXCEPT !.keys = << StoredKey(net, sub.first), StoredKey(net, sub.second) >>]
  /\ UNCHANGED << pipelineVars, dlog, dout, relayerVars, normVars, resolverVars,
                  supervisorVars, retry, feeVars, lastFailed >>

InitSubIndex ==
  /\ IdlePipeline
  /\ InitRelayerVars
  /\ InitNormVars
  /\ InitResolverVars
  /\ InitSupervisorVars
  /\ retry = NoCall
  /\ lastFailed = << >>
  /\ InitFeeVars
  /\ \E p \in Positions, q \in Positions :
       sub = [ first |-> p, second |-> q, keys |-> << >> ]

NextSubIndex == BuildRows

SpecSubIndex == InitSubIndex /\ [][NextSubIndex]_vars


(***************************************************************************)
(* relayerFeeRevenue.ts: computeRelayerFeeRevenue                          *)
(***************************************************************************)
DEFAULT_DECIMALS == 18

\* the rows the query returns: withdrawals with a relayer address, a token
\* id and metadata, left-joined with their token row
FeeWithdrawals(rows) ==
  { e \in rows : /\ e.eventType = "withdrawal"
                 /\ e.relayerAddress # NullText
                 /\ e.tokenId # NullInt }

\* tokens.decimals of the joined token row, NULL when there is none
JoinedDecimals(toks, tokenId) ==
  LET found == { t \in toks : t.id = tokenId } IN
  IF found = {} THEN NullInt ELSE (CHOOSE t \in found : TRUE).decimals

\* the loop over the rows: a row without chain is skipped, and so is a row
\* whose metadata holds no fee string
FeeEntries(rows) ==
  { e \in FeeWithdrawals(rows) : e.chain # NullText /\ e.metadataJson.fee # NullInt }

\* the fees pushed under the key date|chain|relayerAddress|tokenId
FeeGroup(rows, key) ==
  { e \in FeeEntries(rows) : /\ DateOf(e.blockTimestamp) = key.date
                             /\ e.chain = key.chain
                             /\ e.relayerAddress = key.relayerAddress
                             /\ e.tokenId = key.tokenId }

\* totalFeeWei += BigInt(feeStr) over the fees of a group
RECURSIVE SumFees(_)
SumFees(group) ==
  IF group = {} THEN 0
  ELSE LET e == CHOOSE x \in group : TRUE
       IN  e.metadataJson.fee + SumFees(group \ {e})

\* data.tokenDecimals || 18
DecimalsUsed(tokenDecimals) ==
  IF tokenDecimals = NullInt \/ tokenDecimals = 0 THEN DEFAULT_DECIMALS
  ELSE tokenDecimals

\* the row inserted for a group; a normalized value is kept as the integer
\* and the number of decimals it is divided by, the average also by the
\* count
FeeRevenueRow(rows, toks, key) ==
  LET fees == FeeGroup(rows, key)
      totalFeeWei == SumFees(fees)
      decimals == DecimalsUsed(JoinedDecimals(toks, key.tokenId))
  IN  [ date |-> key.date,
        chain |-> key.chain,
        relayerAddress |-> key.relayerAddress,
        tokenId |-> key.tokenId,
        totalFeeWei |-> totalFeeWei,
        totalFeeNormalized |-> [ wei |-> <<totalFeeWei, 1>>, decimals |-> decimals ],
        txCount |-> Cardinality(fees),
        avgFeeNormalized |->
          [ wei |-> IF Cardinality(fees) > 0
                    THEN Reduce(<<totalFeeWei, Cardinality(fees)>>) ELSE <<0, 1>>,
            decimals |-> decimals ] ]

computeRelayerFeeRevenue(rows, toks) ==
  { FeeRevenueRow(rows, toks,
                  [ date |-> DateOf(e.blockTimestamp), chain |-> e.chain,
                    relayerAddress |-> e.relayerAddress, tokenId |-> e.tokenId ]) :
      e \in FeeEntries(rows) }

\* await db.delete(schema.relayerFeeRevenueDaily)
FeeDelete ==
  /\ feePc = "idle"
  /\ relayerFeeRevenueDaily' = {}
  /\ feePc' = "cleared"
  /\ UNCHANGED << pipelineVars, dlog, dout, relayerVars, normVars, resolverVars,
                  supervisorVars, retry, sub, lastFailed >>

\* the query, the grouping loop and one insert per group
FeeCompute ==
  /\ feePc = "cleared"
  /\ relayerFeeRevenueDaily' = computeRelayerFeeRevenue(events, tokens)
  /\ feePc' = "idle"
  /\ UNCHANGED << pipelineVars, dlog, dout, relayerVars, normVars, resolverVars,
                  supervisorVars, retry, sub, lastFailed >>

\* the process ends after the delete
FeeAbort ==
  /\ feePc = "cleared"
  /\ feePc' = "idle"
  /\ UNCHANGED << pipelineVars, dlog, dout, relayerVars, normVars, resolverVars,
                  supervisorVars, retry, sub, lastFailed,
                  relayerFeeRevenueDaily >>

\* a stored Relay withdrawal with a fee, sent by a relayer
FeeWithdrawal(n, id, block, relayer, tokenId, fee) ==
  WithId(NewEvent(n, Log(block, WithdrawalTx[id], 0, "Relay", <<SEL_UNSHIELD>>,
                         UnshieldData(TOKEN_A, 0, fee)),
                  0,
                  DecodedEvent("Unshield", "withdrawal", AddressOfWord(TOKEN_A), 0,
                               AddressOfWord(USER), [fee |-> fee, note |-> ""]),
                  tokenId, NullReal, relayer),
         id)

\* two withdrawals of one relayer and token on one day, one of another
\* relayer, one of another token, one on a later day, one whose sender could
\* not be read and one whose token could not be resolved
FeePool(n) ==
  { FeeWithdrawal(n, 1, 1, "0xr1", 1, 3),
    FeeWithdrawal(n, 2, 1, "0xr1", 1, 4),
    FeeWithdrawal(n, 3, 1, "0xr2", 1, 5),
    FeeWithdrawal(n, 4, 1, "0xr1", 2, 6),
    FeeWithdrawal(n, 5, 3, "0xr1", 1, 7),
    FeeWithdrawal(n, 6, 1, NullText, 1, 8),
    FeeWithdrawal(n, 7, 1, "0xr2", NullInt, 9) }

\* the decimals a token contract reports, or none when the read failed
FeeDecimalsInputs == {NullInt, 0, 1}

InitFeeRevenue ==
  /\ net \in Networks
  /\ head = CONFIRMATION_BLOCKS + 3
  /\ metadata = setLastIndexedBlock(net, EmptyMetadata, 3)
  /\ events \in SUBSET FeePool(net)
  /\ nextEventId = Cardinality(FeePool(net)) + 1
  /\ \E d \in FeeDecimalsInputs :
       tokens = { [ id |-> 1, chain |-> InsertedChain(net),
                    address |-> getAddress(AddressOfWord(TOKEN_A)),
                    symbol |-> TokenSymbol(AddressOfWord(TOKEN_A).bytes),
                    decimals |-> d ],
                  [ id |-> 2, chain |-> InsertedChain(net),
                    address |-> getAddress(AddressOfWord(TOKEN_B)),
                    symbol |-> TokenSymbol(AddressOfWord(TOKEN_B).bytes),
                    decimals |-> TokenDecimals(AddressOfWord(TOKEN_B).bytes) ] }
  /\ nextTokenId = 3
  /\ dailyFlows = {}
  /\ pc = "stopped"
  /\ safeBlock = 0
  /\ currentBlock = 0
  /\ toBlock = 0
  /\ logs = << >>
  /\ logPos = 1
  /\ eventsToInsert = << >>
  /\ timestamps = {}
  /\ txSenders = {}
  /\ tokenCache = {}
  /\ exitCode = NullInt
  /\ exitReason = "none"
  /\ batchBaseId = 1
  /\ runStart = 0
  /\ batches = << >>
  /\ srv = "down"
  /\ aggPc = "idle"
  /\ dlog = NoLog
  /\ dout = NotDecoded
  /\ InitAux

NextFeeRevenue ==
  \/ FeeDelete
  \/ FeeCompute
  \/ FeeAbort

SpecFeeRevenue == InitFeeRevenue /\ [][NextFeeRevenue]_vars


(***************************************************************************)
(* Properties                                                              *)
(***************************************************************************)
\* the stored checkpoint of the network, the start height when no row exists
Checkpoint == getLastIndexedBlock(net, metadata)

\* the keys (tx hash, log index * 100 + sub-index) of the events the logs of
\* blocks lo+1 .. hi decode to
RECURSIVE LogKeys(_, _)
LogKeys(n, ls) ==
  IF ls = << >> THEN {}
  ELSE { << Head(ls).transactionHash, Head(ls).logIndex * 100 + (i - 1) >> :
           i \in 1..Len(Decode(n, Head(ls)).events) }
       \cup LogKeys(n, Tail(ls))

ExpectedKeys(n, lo, hi) ==
  LogKeys(n, getLogs(n, "SmartWallet", lo + 1, hi) \o getLogs(n, "Relay", lo + 1, hi))

StoredIn(rows, key) == \E e \in rows : e.txHash = key[1] /\ e.logIndex = key[2]

\* a step of the ingestion process
IndexerStep == pc' # pc \/ logPos' # logPos

FailureReasons ==
  { "getBlockNumber", "getLogs", "decode", "getBlock", "resolveToken", "insert",
    "persist", "setLastIndexedBlock" }

\* C1: every event decoded from a log in a block above the start height and
\* at or below the stored checkpoint is in the events table.
C1_NoMissedEvents ==
  \A key \in ExpectedKeys(net, START_BLOCK, Checkpoint) : StoredIn(events, key)

\* C2: no (network, tx hash, log index * 100 + sub-index) key is stored in
\* two rows of the events table.
C2_NoDuplicateKeys ==
  \A e1 \in events : \A e2 \in events :
    (e1.chain = e2.chain /\ e1.txHash = e2.txHash /\ e1.logIndex = e2.logIndex)
      => e1.id = e2.id

\* C3: no step of the ingestion loop lowers the stored checkpoint, a
\* successful batch stores its upper bound, and in a run the loop stands at
\* the upper bound of the last of its N successful batches.
C3_CheckpointMonotone ==
  [][ /\ (IndexerStep /\ pc \in {"loop", "batch", "checkpoint"})
           => Checkpoint' >= Checkpoint
      /\ (pc = "checkpoint" /\ pc' = "loop")
           => /\ Checkpoint' = toBlock
              /\ currentBlock' = toBlock
              /\ \E N \in 1..MaxHead :
                   toBlock = IF runStart + N * BATCH_SIZE > safeBlock
                             THEN safeBlock ELSE runStart + N * BATCH_SIZE
    ]_vars

\* C3 witness: a run has written the checkpoint of its second batch
C3_Witness ==
  /\ pc = "loop"
  /\ currentBlock > runStart + BATCH_SIZE
  /\ Checkpoint = currentBlock

\* C4: the checkpoint is written only from the point after the batch's
\* persist, the step that ends the batch leaves every event of the batch in
\* the table, and a crash between the two leaves the checkpoint as it was.
C4_PersistBeforeCheckpoint ==
  [][ /\ (pc = "batch" /\ pc' = "checkpoint")
           => \A key \in ExpectedKeys(net, currentBlock, toBlock) : StoredIn(events', key)
      /\ (IndexerStep /\ metadata' # metadata)
           => /\ pc = "checkpoint"
              /\ metadata' = [metadata EXCEPT ![CheckpointKey(net)] = toString(toBlock)]
      /\ (pc \in {"batch", "checkpoint"} /\ pc' = "exited") => metadata' = metadata
    ]_vars

\* C4 witness: the batch's rows are committed and its checkpoint is not yet
\* written
C4_Witness ==
  /\ pc = "checkpoint"
  /\ ExpectedKeys(net, currentBlock, toBlock) # {}
  /\ \A key \in ExpectedKeys(net, currentBlock, toBlock) : StoredIn(events, key)
  /\ Checkpoint < toBlock

\* C5: when an error leaves a batch the process ends without another batch
\* and the stored checkpoint is the one the loop had before that batch.
C5_FailedBatchNotSkipped ==
  [][ /\ (exitReason = "none" /\ exitReason' \in FailureReasons)
           => /\ pc' = "exited"
              /\ metadata' = metadata
      /\ (IndexerStep /\ pc \in {"loop", "batch"}) => metadata' = metadata
      /\ (pc = "exited" /\ IndexerStep) => (pc' = "stopped" /\ metadata' = metadata)
    ]_vars

\* C5 witness: a later batch of a run failed and the checkpoint of the
\* batch before it is the stored one
C5_Witness ==
  /\ pc = "exited"
  /\ exitReason \in {"getBlock", "persist"}
  /\ Checkpoint > START_BLOCK

\* C6: when a batch ends in a failure, the rows written since the batch
\* began are none, or every event of the batch is in the table.
C6_AtomicBatchPersist ==
  [][ (pc \in {"batch", "checkpoint"} /\ pc' = "exited")
        => \/ { e \in events' : e.id >= batchBaseId } = {}
           \/ \A key \in ExpectedKeys(net, currentBlock, toBlock) : StoredIn(events', key)
    ]_vars

\* C7: a process that ended on an error has a non-zero exit status, and the
\* exit status is zero only when the loop caught up with the safe head.
C7_ExitStatus ==
  pc = "exited" => (exitCode = 0 <=> exitReason = "caughtUp")

\* a log whose first topic matches no structured schema and no legacy
\* signature
UnknownTopic(log) ==
  \/ log.topics = << >>
  \/ log.topics[1] \notin
       { item.sel : item \in SMART_WALLET_ABI \cup RELAY_ABI \cup POLYGON_RELAY_ABI }
       \cup { POLYGON_EVENT_SIGNATURES.UNSHIELD, POLYGON_EVENT_SIGNATURES.SHIELD }

\* C8: for a log with an unknown first topic, whatever its data, both
\* decoders return the empty list and raise nothing.
C8_DecoderRobustness ==
  (dout.by # "none" /\ UnknownTopic(dlog)) => (~dout.threw /\ dout.events = << >>)

\* C8 witness: decodeRelayEvent has returned for an unknown topic with data
\* too short for any schema
C8_Witness ==
  /\ dout.by = "decodeRelayEvent"
  /\ dlog.topics = <<SEL_UNKNOWN>>
  /\ dlog.data = <<FULL>>
  /\ dout.events = << >>

\* the network of a stored event: rows without a chain count as Ethereum
NetworkOf(e) == IF e.chain = NullText THEN "ethereum" ELSE e.chain

\* the distinct transactions behind the deposits and withdrawals of a
\* (date, network, token)
Transactions(rows, date, network, tokenId) ==
  { e.txHash : e \in { x \in FlowEvents(rows) : /\ DateOf(x.blockTimestamp) = date
                                                 /\ NetworkOf(x) = network
                                                 /\ x.tokenId = tokenId } }

FlowRowsOf(flows, date, network, tokenId) ==
  { r \in flows : r.date = date /\ r.chain = network /\ r.tokenId = tokenId }

\* C9: a completed recompute leaves no row for a (date, network, token) with
\* fewer than 3 transactions and exactly one row for each with 3 or more.
C9_CohortSuppression ==
  [][ AggCompute =>
        \A e \in FlowEvents(events) :
          LET date == DateOf(e.blockTimestamp)
              count == Cardinality(Transactions(events, date, NetworkOf(e), e.tokenId))
              rows == FlowRowsOf(dailyFlows', date, NetworkOf(e), e.tokenId)
          IN  IF count < MIN_TX_THRESHOLD THEN rows = {} ELSE Cardinality(rows) = 1
    ]_vars

\* C10: every row a recompute discloses aggregates at least 3 distinct
\* transactions, and its two counts add up to that number of transactions.
C10_DisclosedRowsCountTransactions ==
  [][ AggCompute =>
        \A r \in dailyFlows' :
          LET txs == Transactions(events, r.date, r.chain, r.tokenId)
          IN  /\ Cardinality(txs) >= MIN_TX_THRESHOLD
              /\ r.depositTxCount + r.withdrawalTxCount = Cardinality(txs)
    ]_vars

\* the deposit or withdrawal RawEvents of a (date, network, token)
BucketEvents(rows, date, network, tokenId, type) ==
  { e \in rows : /\ e.eventType = type
                 /\ e.tokenId = tokenId
                 /\ DateOf(e.blockTimestamp) = date
                 /\ NetworkOf(e) = network }

\* the exact sum of the normalized amounts of a set of events
RECURSIVE AmountSum(_)
AmountSum(group) ==
  IF group = {} THEN <<0, 1>>
  ELSE LET e == CHOOSE x \in group : TRUE
       IN  FractionPlus(IF e.amountNormalized = NullReal THEN <<0, 1>>
                        ELSE e.amountNormalized,
                        AmountSum(group \ {e}))

\* C11: every row a recompute writes carries, for its (date, network, token),
\* the sum of the normalized amounts of the deposits, the sum of those of the
\* withdrawals, the two event counts, and netFlow = deposits - withdrawals.
C11_DailyFlowContent ==
  [][ AggCompute =>
        \A r \in dailyFlows' :
          LET deposits == BucketEvents(events, r.date, r.chain, r.tokenId, "deposit")
              withdrawals ==
                BucketEvents(events, r.date, r.chain, r.tokenId, "withdrawal")
          IN  /\ FractionEq(r.totalDeposits, AmountSum(deposits))
              /\ FractionEq(r.totalWithdrawals, AmountSum(withdrawals))
              /\ r.depositTxCount = Cardinality(deposits)
              /\ r.withdrawalTxCount = Cardinality(withdrawals)
              /\ FractionEq(FractionPlus(r.netFlow, AmountSum(withdrawals)),
                            AmountSum(deposits))
    ]_vars

\* a recompute has disclosed a bucket holding a deposit and three withdrawals
\* of 20, 30 and 10
C11_Witness ==
  /\ aggPc = "idle"
  /\ \E r \in dailyFlows : /\ r.depositTxCount = 1
                            /\ r.withdrawalTxCount = 3
                            /\ FractionEq(r.totalWithdrawals, <<60, 1>>)
                            /\ FractionEq(r.netFlow, <<0 - 60, 1>>)

\* the withdrawals with a relayer of a (date, network)
RelayerBucket(rows, date, network) ==
  { e \in RelayerEvents(rows) : DateOf(e.blockTimestamp) = date /\ NetworkOf(e) = network }

\* the largest volume any five or fewer relayers of a bucket add up to
LargestFiveVolume(bucket) ==
  LET relayers == { e.relayerAddress : e \in bucket }
      sums == { AmountSum({ e \in bucket : e.relayerAddress \in S }) :
                  S \in { T \in SUBSET relayers : Cardinality(T) <= TOP_RELAYERS } }
  IN  CHOOSE m \in sums : \A q \in sums : ~FractionLess(m, q)

\* the sum over the relayers of a bucket of the square of their volume
RECURSIVE SquaredVolumes(_, _)
SquaredVolumes(bucket, relayers) ==
  IF relayers = {} THEN <<0, 1>>
  ELSE LET r == CHOOSE x \in relayers : TRUE
           volume == AmountSum({ e \in bucket : e.relayerAddress = r })
       IN  FractionPlus(FractionTimes(volume, volume),
                        SquaredVolumes(bucket, relayers \ {r}))

\* C12: after a recompute every (date, network) that has withdrawals with a
\* relayer has one statistics row whose relayer count is the number of
\* distinct relayers, whose top-5 share is the volume of the five largest
\* relayers over the total volume, whose HHI is the sum of the squared
\* volume shares, both 0 when the total volume is 0 and both within [0, 1].
C12_RelayerConcentration ==
  [][ RelayerCompute =>
        \A e \in RelayerEvents(events) :
          LET bucket == RelayerBucket(events, DateOf(e.blockTimestamp), NetworkOf(e))
              relayers == { x.relayerAddress : x \in bucket }
              total == AmountSum(bucket)
              rows == { r \in relayerStatsDaily' :
                          r.date = DateOf(e.blockTimestamp) /\ r.chain = NetworkOf(e) }
          IN  /\ Cardinality(rows) = 1
              /\ \A r \in rows :
                   /\ r.numActiveRelayers = Cardinality(relayers)
                   /\ IF total[1] = 0
                      THEN r.top5Share[1] = 0 /\ r.hhi[1] = 0
                      ELSE /\ FractionEq(FractionTimes(r.top5Share, total),
                                         LargestFiveVolume(bucket))
                           /\ FractionEq(FractionTimes(r.hhi, FractionTimes(total, total)),
                                         SquaredVolumes(bucket, relayers))
                   /\ ~FractionLess(r.top5Share, <<0, 1>>)
                   /\ ~FractionLess(<<1, 1>>, r.top5Share)
                   /\ ~FractionLess(r.hhi, <<0, 1>>)
                   /\ ~FractionLess(<<1, 1>>, r.hhi)
    ]_vars

\* C13: the normalized amount of an event with a raw amount and a token of
\* known decimals d >= 0 is raw / 10^d, and it is NULL exactly when the raw
\* amount is absent or the decimals are unknown.
C13_Normalization ==
  nout.done =>
    LET known == { t \in tokens : t.id = nin.tokenId /\ t.decimals # NullInt }
    IN  IF nin.rawAmountWei = NullInt \/ known = {}
        THEN nout.amountNormalized = NullReal
        ELSE /\ nout.amountNormalized # NullReal
             /\ \A t \in known :
                  FractionEq(nout.amountNormalized, << nin.rawAmountWei, 10 ^ t.decimals >>)

\* the network a token row belongs to: rows without a chain count as Ethereum
TokenNetwork(t) == IF t.chain = NullText THEN "ethereum" ELSE t.chain

\* C14: whatever the interleaving of two resolve calls of one network for
\* spellings of one address, at most one token row exists for that network
\* and address, and every call that has returned gave the id of that row.
C14_TokenUniquenessUnderRaces ==
  rcalls # << >> /\ rcalls[1].net = rcalls[2].net =>
    LET rows == { t \in tokens :
                    /\ TokenNetwork(t) = rcalls[1].net
                    /\ t.address = getAddress(rcalls[1].tokenAddress) }
    IN  /\ Cardinality(rows) <= 1
        /\ \A i \in Callers :
             rcalls[i].pc = "done" => rcalls[i].result \in { t.id : t \in rows }

\* C15: every token row a call inserts carries the network of the resolver
\* that made the call, and the id a call returns is the id of a token row of
\* that network, also when the other network has stored the same address.
C15_NetworkIsolation ==
  [][ \A i \in Callers :
        /\ ResolveInsert(i) => \A t \in tokens' \ tokens : t.chain = rcalls[i].net
        /\ (rcalls[i].pc # "done" /\ rcalls'[i].pc = "done"
              /\ rcalls'[i].result # NullInt)
             => \E t \in tokens' : /\ t.id = rcalls'[i].result
                                   /\ t.chain = rcalls[i].net
    ]_vars

\* C16: a call whose metadata fetch failed still returns the id of a stored
\* token row, and the row it inserted has neither symbol nor decimals.
C16_FetchFailureDoesNotBlock ==
  rcalls # << >> =>
    \A i \in Callers :
      rcalls[i].pc = "done" /\ rcalls[i].fetchFailed =>
        /\ rcalls[i].result # NullInt
        /\ \E t \in tokens : t.id = rcalls[i].result
        /\ \A t \in tokens :
             t.id = rcalls[i].insertedId =>
               t.symbol = NullText /\ t.decimals = NullInt

\* a call whose fetch failed has returned the id of the row it inserted
C16_Witness ==
  /\ rcalls # << >>
  /\ \E i \in Callers :
       /\ rcalls[i].pc = "done"
       /\ rcalls[i].fetchFailed
       /\ rcalls[i].result = rcalls[i].insertedId
       /\ \E t \in tokens : /\ t.id = rcalls[i].result
                            /\ t.symbol = NullText
                            /\ t.decimals = NullInt

\* C17: at most one aggregation run is in flight; a trigger that arrives
\* while a run is in flight starts none; the end of a run, failed or not,
\* clears the in-flight flag, and with the flag clear a trigger starts a run.
C17_SingleAggregationRun ==
  [][ /\ Cardinality(InFlight') <= 1
      /\ InFlight # {} => InFlight' \subseteq InFlight
      /\ InFlight # {} /\ InFlight' = {} => ~analyticsRunning'
      /\ InFlight = {} /\ lastTrigger' # lastTrigger => InFlight' = {lastTrigger'.by}
    ]_vars

\* an indexer's exit callback was skipped while the run of another trigger
\* was in flight, after an earlier run had failed
C17_Witness ==
  /\ lastEnd = "failed"
  /\ InFlight = {"interval"}
  /\ lastTrigger = [ by |-> "polygon", ran |-> FALSE ]

\* C18: the delete and the re-insert of the DailyFlow family are one atomic
\* step: whenever the table changes it becomes the complete rebuild from the
\* stored events, so no state shows it emptied or partly rebuilt and a run
\* that ends early leaves the rows that were there.
C18_AggregationAtomicity ==
  [][ dailyFlows' # dailyFlows => dailyFlows' = computeDailyFlows(events') ]_vars

\* C19: the stored checkpoint of a network changes only in the step of that
\* network's ingestion loop that follows a persisted batch; no other
\* component writes, lowers or deletes it.
C19_CheckpointOwnership ==
  [][ \A n \in Networks :
        metadata'[CheckpointKey(n)] # metadata[CheckpointKey(n)]
          => n = net /\ SetCheckpoint
    ]_vars

\* C20: a stored RawEvent row is never modified or deleted: every row of the
\* events table is still there, with the same fields, after every step.
C20_RawEventImmutability ==
  [][ \A e \in events : e \in events' ]_vars

\* C21: the safe head of a run is the head read at its start less the
\* confirmation depth; no batch of the run asks for a block above it and no
\* checkpoint the run writes exceeds it.
C21_ConfirmationMargin ==
  [][ /\ (pc = "main" /\ pc' = "loop") => safeBlock' = head - CONFIRMATION_BLOCKS
      /\ (pc \in {"loop", "batch", "checkpoint"} /\ pc' # "exited")
           => safeBlock' = safeBlock
      /\ (pc = "loop" /\ pc' = "batch")
           => /\ toBlock' <= safeBlock
              /\ \A k \in 1..Len(logs') : logs'[k].blockNumber <= safeBlock
      /\ (pc = "checkpoint" /\ pc' = "loop") => Checkpoint' <= safeBlock
    ]_vars

\* C21 witness: a batch whose upper bound was cut down to the safe head
C21_Witness ==
  /\ pc = "batch"
  /\ toBlock = safeBlock
  /\ toBlock < currentBlock + BATCH_SIZE
  /\ safeBlock = head - CONFIRMATION_BLOCKS

C23_SupervisedRestart ==
  \A n \in Networks :
    (~indexerStatus[n].running) ~> (indexerStatus[n].running /\ supPc[n] = "running")

\* C23 witness: one network's process runs again after an exit with status
\* 0, the other's after an exit with a failure status
C23_Witness ==
  /\ \A n \in Networks : indexerStatus[n].running /\ supPc[n] = "running"
  /\ indexerStatus["polygon"].lastExitCode = 0
  /\ indexerStatus["ethereum"].lastExitCode = 1

\* C24: a network call of the pipeline (head height, log query, block
\* timestamp, transaction sender, the resolver's symbol and decimals reads)
\* is treated as failed only after MAX_RETRIES attempts.
C24_NetworkCallsRetried ==
  (retry.site \in NetworkCalls /\ retry.pc \in {"threw", "caught"})
    => Len(retry.calls) = MAX_RETRIES

\* C26: a store write of the loop (event persist, token insert, checkpoint
\* write) whose one attempt so far met a busy store has not ended the run.
C26_StoreWritesTolerateBusy ==
  (retry.site \in StoreWrites /\ retry.calls = << "sqliteBusy" >>)
    => retry.pc # "threw"

\* C27: withRetry calls the operation at most MAX_RETRIES times, makes no
\* call after a successful one and returns on it, has waited once between
\* two attempts and not after the last, and after MAX_RETRIES failed
\* attempts throws the error of the last one.
C27_WithRetryBounded ==
  Wrapped(retry.n, retry.site) =>
    LET k == Len(retry.calls) IN
    /\ k <= MAX_RETRIES
    /\ \A j \in 1..(k - 1) : retry.calls[j] # "ok"
    /\ retry.pc = "returned" <=> (k > 0 /\ retry.calls[k] = "ok")
    /\ retry.pc = "returned" => Len(retry.waits) = k - 1
    /\ retry.pc = "attempt" => Len(retry.waits) = k /\ retry.attempt = k + 1
    /\ retry.pc = "sleep" => Len(retry.waits) = k - 1
    /\ retry.pc \in {"threw", "caught"}
         => /\ k = MAX_RETRIES
            /\ Len(retry.waits) = MAX_RETRIES - 1
            /\ retry.lastError = retry.calls[MAX_RETRIES]

\* C27 witness: the log query has failed MAX_RETRIES times, the last time
\* with another error than the first, and the error has left withRetry
C27_Witness ==
  /\ retry.site = "getLogs"
  /\ retry.pc = "threw"
  /\ retry.calls[1] = "generic"
  /\ retry.lastError = "rateLimit"

\* C28: in each network's loop the wait after a rate-limit error is longer
\* than the wait a busy store would get at the same attempt, that one is
\* longer than the wait of any other error, and the wait after the same kind
\* of error grows from one attempt to the next.
C28_BackoffTiers ==
  \A a \in 1..Len(retry.waits) :
    /\ retry.calls[a] = "rateLimit"
         => retry.waits[a] > Delay(retry.n, "sqliteBusy", a)
    /\ retry.calls[a] = "sqliteBusy"
         => retry.waits[a] > Delay(retry.n, "generic", a)
    /\ retry.calls[a] = "generic"
         => retry.waits[a] < Delay(retry.n, "sqliteBusy", a)
    /\ (a > 1 /\ retry.calls[a - 1] = retry.calls[a])
         => retry.waits[a] > retry.waits[a - 1]

\* C25: a batch in which a network call (log query, block timestamp,
\* transaction sender lookup) failed on every attempt does not get its
\* checkpoint written: at the checkpoint write of a batch every sender
\* lookup the batch made has returned the sender.
C25_ExhaustedRetriesFailBatch ==
  [][ /\ (pc \in {"loop", "batch"} /\ pc' = "exited"
            /\ exitReason' \in {"getLogs", "getBlock"})
           => metadata' = metadata
      /\ (pc = "checkpoint" /\ pc' = "loop")
           => \A x \in txSenders : x.from # NullText
    ]_vars

TypeOfName(eventName) ==
  IF eventName = "Shield" THEN "deposit"
  ELSE IF eventName = "Unshield" THEN "withdrawal"
  ELSE IF eventName = "RelayerPayment" THEN "relayer_payment"
  ELSE "other"

\* the ABI the decoder that produced dout handed to decodeEventLog
AbiUsed ==
  IF dout.by = "decodeSmartWalletEvent" THEN SMART_WALLET_ABI
  ELSE IF net = "polygon" THEN POLYGON_RELAY_ABI ELSE RELAY_ABI

\* C30: when decodeEventLog decodes the log against the ABI, every event the
\* decoder returns carries the type its name stands for (Shield deposit,
\* Unshield withdrawal), and for a relayer-payment or any other name
\* (Transact) the decoder returns an event of type relayer_payment or other.
C30_ClassificationByName ==
  (dout.by # "none" /\ ~decodeEventLog(AbiUsed, dlog).threw)
    => LET eventName == decodeEventLog(AbiUsed, dlog).eventName IN
       /\ \A k \in 1..Len(dout.events) :
            dout.events[k].eventType = TypeOfName(eventName)
       /\ eventName \notin {"Shield", "Unshield"}
            => /\ ~dout.threw
               /\ Len(dout.events) >= 1

LegacySignatures ==
  { POLYGON_EVENT_SIGNATURES.UNSHIELD, POLYGON_EVENT_SIGNATURES.SHIELD }

LegacyTopic(log) == log.topics # << >> /\ log.topics[1] \in LegacySignatures

\* C31: decodeRelayEvent returns the structured result for a log that
\* decodeEventLog decodes, and such a log has no legacy first topic; when
\* structured decoding raised, the result is that of a manual byte-offset
\* path only for a legacy first topic, and no event for any other topic.
C31_StrategyOrder ==
  dout.by = "decodeRelayEvent"
    => LET decoded == decodeEventLog(AbiUsed, dlog) IN
       /\ ~decoded.threw
            => /\ dout.events = StructuredEvents(AbiUsed, decoded).events
               /\ ~LegacyTopic(dlog)
       /\ (decoded.threw /\ ~LegacyTopic(dlog)) => dout.events = << >>
       /\ (decoded.threw /\ LegacyTopic(dlog))
            => dout.events \in { << >>, LegacyUnshield(dlog).events,
                                 LegacyShield(dlog).events }

\* C31 witness: the Polygon decoder has taken the manual Unshield path for a
\* log with the legacy Unshield signature that did not decode structurally
C31_Witness ==
  /\ dout.by = "decodeRelayEvent"
  /\ net = "polygon"
  /\ dlog.topics = << POLYGON_EVENT_SIGNATURES.UNSHIELD >>
  /\ decodeEventLog(POLYGON_RELAY_ABI, dlog).threw
  /\ Len(dout.events) = 1
  /\ dout.events[1].eventName = "Unshield"

\* the manual Shield path runs: the first topic is the legacy Shield
\* signature and the data string is longer than 200 characters
ShieldFallbackRuns(log) ==
  /\ log.topics # << >>
  /\ log.topics[1] = POLYGON_EVENT_SIGNATURES.SHIELD
  /\ HexLength(log.data) > 200

\* the positions of the data string the Shield path looks at that hold a
\* zero-padded non-zero address
AddressPositions(data) ==
  { i \in 2..(HexLength(data) - 64) :
      /\ i % 2 = 0
      /\ \/ i < HexLength(data) - 64
         \/ \E k \in 1..Len(CandidatePositions) : CandidatePositions[k] = i
      /\ PaddedAddress(ChunkAt(DataBytes(data), i)) }

\* C32: when the manual Shield path finds a zero-padded non-zero address at
\* a candidate offset or in the scan, the decoder returns exactly one event:
\* a Shield deposit of that token with raw amount 0, no fee and the note
\* about the incomplete extraction; when it finds none, it returns no event.
C32_LegacyShieldOutput ==
  (dout.by = "decodeRelayEvent" /\ ShieldFallbackRuns(dlog))
    => IF AddressPositions(dlog.data) = {}
       THEN dout.events = << >>
       ELSE /\ Len(dout.events) = 1
            /\ dout.events[1].eventName = "Shield"
            /\ dout.events[1].eventType = "deposit"
            /\ dout.events[1].rawAmountWei = 0
            /\ dout.events[1].metadata.fee = NullInt
            /\ dout.events[1].metadata.note # ""
            /\ dout.events[1].tokenAddress.bytes # ZeroBytes20
            /\ \E i \in AddressPositions(dlog.data) :
                 dout.events[1].tokenAddress.bytes
                   = SubSeq(ChunkAt(DataBytes(dlog.data), i), 13, 32)

\* C32 witness: the Shield path has returned a deposit for data whose last
\* word is not zero and that holds an address found by the scan only
C32_Witness ==
  /\ dout.by = "decodeRelayEvent"
  /\ ShieldFallbackRuns(dlog)
  /\ dlog.data = << TOKEN_A, FULL, FULL, FULL >>
  /\ Len(dout.events) = 1
  /\ dout.events[1].rawAmountWei = 0

\* the withdrawals with a relayer, a token and a fee of a (date, network,
\* relayer, token)
FeeBucket(rows, e) ==
  { x \in FeeWithdrawals(rows) : /\ x.metadataJson.fee # NullInt
                                 /\ DateOf(x.blockTimestamp) = DateOf(e.blockTimestamp)
                                 /\ NetworkOf(x) = NetworkOf(e)
                                 /\ x.relayerAddress = e.relayerAddress
                                 /\ x.tokenId = e.tokenId }

\* C33: after a recompute every (date, network, relayer, token) with
\* withdrawals that carry a fee has one row whose total fee is the sum of
\* their fees, whose count is their number, and whose total and average are
\* the total and total / count divided by 10^decimals of the token, by 10^18
\* only when the token's decimals are unknown.
C33_RelayerFeeRevenue ==
  [][ FeeCompute =>
        \A e \in FeeWithdrawals(events) :
          e.metadataJson.fee # NullInt =>
            LET bucket == FeeBucket(events, e)
                total == SumFees(bucket)
                known == JoinedDecimals(tokens, e.tokenId)
                decimals == IF known = NullInt THEN DEFAULT_DECIMALS ELSE known
                rows == { r \in relayerFeeRevenueDaily' :
                            /\ r.date = DateOf(e.blockTimestamp)
                            /\ r.chain = NetworkOf(e)
                            /\ r.relayerAddress = e.relayerAddress
                            /\ r.tokenId = e.tokenId }
            IN  /\ Cardinality(rows) = 1
                /\ \A r \in rows :
                     /\ r.totalFeeWei = total
                     /\ r.txCount = Cardinality(bucket)
                     /\ r.totalFeeNormalized.decimals = decimals
                     /\ FractionEq(r.totalFeeNormalized.wei, <<total, 1>>)
                     /\ r.avgFeeNormalized.decimals = decimals
                     /\ FractionEq(r.avgFeeNormalized.wei, <<total, Cardinality(bucket)>>)
    ]_vars

Families ==
  { "DailyFlow", "RelayerStatsDaily", "RelayerFeeRevenueDaily", "DailyTokenDiversity" }

\* C34: when a run of the scheduled aggregation is reported complete, it
\* has rebuilt the DailyFlow, RelayerStatsDaily, RelayerFeeRevenueDaily and
\* DailyTokenDiversity tables.
C34_EveryFamilyRecomputed ==
  [][ \A t \in Triggers :
        (analyticsRuns[t] # "none" /\ analyticsRuns'[t] = "none" /\ lastEnd' = "complete")
          => rebuilt'[t] = Families
    ]_vars

\* C39: no network has two ingestion processes alive, a restart timer of a
\* network is pending only while none of its processes is alive, and the
\* step that starts a process starts it for a network without a live one.
C39_OneProcessPerNetwork ==
  [][ \A n \in Networks :
        /\ liveProcs'[n] <= 1
        /\ timers'[n] > 0 => liveProcs'[n] = 0
        /\ liveProcs'[n] > liveProcs[n] => liveProcs[n] = 0
    ]_vars

\* C39 witness: both networks have been restarted, one while an aggregation
\* run of the other's exit callback was in flight
C39_Witness ==
  /\ liveProcs["ethereum"] = 1
  /\ indexerStatus["ethereum"].lastExitCode # NullInt
  /\ supPc["ethereum"] = "running"
  /\ liveProcs["polygon"] = 0
  /\ analyticsRuns["polygon"] # "none"

\* the blocks of a committed range
BlocksOf(range) == range[1] .. range[2]

\* min(checkpoint + BATCH_SIZE, safe head)
ClampedEnd(checkpoint) ==
  IF checkpoint + BATCH_SIZE > safeBlock THEN safeBlock ELSE checkpoint + BATCH_SIZE

InRun == pc \in {"loop", "batch", "checkpoint"}

\* C35: during a run, the batch at work fetches the logs of exactly the
\* blocks checkpoint+1 .. min(checkpoint+BATCH_SIZE, safe head); each committed
\* batch starts one block after the batch before it (the first one block after
\* the initial checkpoint), ends at that clamped bound, is between 1 and
\* BATCH_SIZE blocks wide, and every block after the initial checkpoint up to
\* the current checkpoint lies in exactly one committed batch.
C35_BatchRanges ==
  InRun =>
    /\ metadata[CheckpointKey(net)] # NoRow => Checkpoint = currentBlock
    /\ pc \in {"batch", "checkpoint"} =>
         /\ toBlock = ClampedEnd(currentBlock)
         /\ logs = getLogs(net, "SmartWallet", currentBlock + 1, toBlock)
                   \o getLogs(net, "Relay", currentBlock + 1, toBlock)
    /\ \A i \in 1 .. Len(batches) :
         LET before == IF i = 1 THEN runStart ELSE batches[i - 1][2]
         IN  /\ batches[i][1] = before + 1
             /\ batches[i][2] = ClampedEnd(before)
             /\ batches[i][2] - batches[i][1] + 1 \in 1 .. BATCH_SIZE
    /\ Len(batches) > 0 => batches[Len(batches)][2] = currentBlock
    /\ Len(batches) = 0 => currentBlock = runStart
    /\ \A block \in runStart + 1 .. currentBlock :
         Cardinality({ i \in 1 .. Len(batches) : block \in BlocksOf(batches[i]) }) = 1

\* C35 witness: a run has committed a full batch and a batch clamped at the
\* safe head
C35_Witness ==
  /\ InRun
  /\ Len(batches) >= 2
  /\ batches[1][2] - batches[1][1] + 1 = BATCH_SIZE
  /\ batches[Len(batches)][2] - batches[Len(batches)][1] + 1 < BATCH_SIZE
  /\ currentBlock = safeBlock

\* a run is about to work on its first batch after a run that failed on a
\* batch, and this step is that batch
FirstBatchAfterFailure ==
  /\ pc = "loop"
  /\ LoopTest
  /\ batches = << >>
  /\ lastFailed # << >>
  /\ pc' = "exited" \/ batches' # batches

C37_CacheEmptiedBetweenBatches ==
  [][ /\ (pc = "checkpoint" /\ pc' = "loop") => tokenCache' = {}
      /\ pc' = "loop" => tokenCache' = {}
      /\ (pc = "loop" /\ pc' = "batch") => tokenCache = {} /\ tokenCache' = {}
    ]_vars

\* C37 witness: a batch that resolved a token has stored its rows and its
\* cache still holds the entry; the commit is the next step
C37_Witness ==
  /\ pc = "checkpoint"
  /\ tokenCache # {}
  /\ Len(batches) >= 1

\* the entry of a call's cache agrees with the store
EntryConsistent(n, entry) ==
  /\ entry.address = getAddress(entry.address)
  /\ \E t \in tokens : /\ t.id = entry.id
                       /\ t.address = entry.address
                       /\ t.chain = n
  /\ TokenMatches(n, tokens, entry.address) # {}
  /\ FirstRow(TokenMatches(n, tokens, entry.address)).id = entry.id

\* C38: every entry of a resolver's token cache maps a canonical address to
\* the id of a token row stored with that address and the resolver's network,
\* and the store lookup of the resolver returns the same id.
C38_CacheConsistency ==
  \A i \in Callers : \A entry \in rcache[CacheOf(i)] :
    EntryConsistent(rcalls[i].net, entry)
====
